---- MODULE Spec2Model ----
(***************************************************************************)
(* Model of jacket-server: the colour/effect extraction engine             *)
(* (color_parser.py) and the HTTP handler that scans mentions (app.py).    *)
(*                                                                         *)
(* A Python str is a sequence of one-character strings, so that substring  *)
(* search, the regular expressions, str.lower(), int() and the f-string    *)
(* formatting are computed character by character.  An Optional value is   *)
(* a set with at most one element: None is {} and a value v is {v}.        *)
(***************************************************************************)
EXTENDS Integers, Sequences, FiniteSets, TLC

VARIABLES
    text,             \* the str handed to extract_color / extract_effect
    set_order,        \* the order in which this process iterates the EFFECTS set
    op,               \* the function called last ("idle" before any call)
    ret,              \* what that call returned
    held,             \* a dict from an earlier get_default_color call that the
                      \* caller kept and wrote to, as it is now (None: no such dict)
    API_KEY,          \* app.config["API_KEY"]: None or the configured key
    PLATFORMS,        \* the keys of app.config["PLATFORMS"]
    ACTIVE_PLATFORM,  \* app.config["ACTIVE_PLATFORM"]: None or a platform name
    request,          \* the HTTP request being answered
    calls,            \* the get_latest_mentions calls made for it, with their outcomes
    response,         \* the HTTP response to it
    mastodon,         \* a MastodonPlatform object: its client and instance_url
    bluesky,          \* a BlueskyPlatform object: its client and debug flag
    initialize_ret,   \* what initialize returned on each of the two objects
                      \* (None: not called on it yet)
    args,             \* the arguments of the platform method called last, and
                      \* what the remote API had to answer
    remote,           \* the remote API calls that method made, in order
    threads,          \* the local variables of each thread that handles requests
    feed              \* what get_latest_mentions of each platform does at present

parser_vars == <<text, set_order, op, ret, held>>

config_vars == <<API_KEY, PLATFORMS, ACTIVE_PLATFORM>>

http_vars == <<request, calls, response>>

platform_vars == <<mastodon, bluesky, initialize_ret, args, remote>>

worker_vars == <<threads, feed>>

vars == <<text, set_order, op, ret, held, API_KEY, PLATFORMS, ACTIVE_PLATFORM,
          request, calls, response, mastodon, bluesky, initialize_ret, args, remote,
          threads, feed>>

---------------------------------------------------------------------------
(* Bounds of the model. *)

\* Longest text, counted in fragments, drawn from a fragment pool.
MaxFrags == 2

\* Longest list of mentions a platform returns.
MaxMentions == 3

---------------------------------------------------------------------------
(* Characters. *)

None == {}

NoRequest == [endpoint |-> "none"]

NoResponse == [status |-> "none"]

Truthy(opt) == opt # None

\* the value None where a text is expected; no text has an element of more
\* than one character
NoText == <<"None">>

\* `not text`
Falsy(t) == t = NoText \/ t = <<>>

\* an exception that leaves parse_rgb_color in the place of its tuple
ValueError == <<"ValueError">>

\* an exception that leaves extract_color in the place of its dict
Raise(e) == [exception |-> e[1]]

ToLowerTable ==
    [A |-> "a", B |-> "b", C |-> "c", D |-> "d", E |-> "e", F |-> "f",
     G |-> "g", H |-> "h", I |-> "i", J |-> "j", K |-> "k", L |-> "l",
     M |-> "m", N |-> "n", O |-> "o", P |-> "p", Q |-> "q", R |-> "r",
     S |-> "s", T |-> "t", U |-> "u", V |-> "v", W |-> "w", X |-> "x",
     Y |-> "y", Z |-> "z"]

UpperCaseLetters == DOMAIN ToLowerTable

LowerChar(c) == IF c \in UpperCaseLetters THEN ToLowerTable[c] ELSE c

\* str.lower()
Lower(s) == SubSeq([i \in 1..Len(s) |-> LowerChar(s[i])], 1, Len(s))

\* needle in haystack (Python's substring test)
Contains(needle, hay) ==
    \E i \in 1..(Len(hay) - Len(needle) + 1) :
        SubSeq(hay, i, i + Len(needle) - 1) = needle

RECURSIVE Replace(_, _, _)
\* str.replace(old, new) for one-character old and new
Replace(s, old, new) ==
    IF s = <<>> THEN <<>>
    ELSE <<IF Head(s) = old THEN new ELSE Head(s)>> \o Replace(Tail(s), old, new)

RECURSIVE Reverse(_)
Reverse(s) == IF s = <<>> THEN <<>> ELSE Append(Reverse(Tail(s)), Head(s))

DecDigits == <<"0", "1", "2", "3", "4", "5", "6", "7", "8", "9">>

HexDigitChars == <<"0", "1", "2", "3", "4", "5", "6", "7", "8", "9", "a", "b", "c", "d", "e", "f">>

IsDigit(c) == \E i \in 1..10 : DecDigits[i] = c

IsHexDigit(c) == \E i \in 1..16 : HexDigitChars[i] = LowerChar(c)

IsSpace(c) == c \in {" ", "\t", "\n"}

DigitVal(c) == (CHOOSE i \in 1..16 : HexDigitChars[i] = LowerChar(c)) - 1

RECURSIVE ParseInt(_, _)
\* int(s, base)
ParseInt(s, base) ==
    IF s = <<>> THEN 0
    ELSE ParseInt(SubSeq(s, 1, Len(s) - 1), base) * base + DigitVal(s[Len(s)])

\* sys.get_int_max_str_digits(): the longest string CPython's int() converts
\* before it raises ValueError (CPython 3.11 default)
INT_MAX_STR_DIGITS == 4300

\* int(s) for a string of digits or of letters: None stands for the
\* ValueError, raised for a non-number and for a number of too many digits
IntOrRaise(s) ==
    IF /\ s # <<>>
       /\ Len(s) <= INT_MAX_STR_DIGITS
       /\ \A k \in 1..Len(s) : IsDigit(s[k])
    THEN {ParseInt(s, 10)} ELSE None

RECURSIVE FormatInt(_, _)
\* the digits of n >= 0 in the given base, lowercase, no padding
FormatInt(n, base) ==
    IF n < base THEN <<HexDigitChars[n + 1]>>
    ELSE FormatInt(n \div base, base) \o <<HexDigitChars[(n % base) + 1]>>

\* Mutant of Format02x: f'{c:x}', the padding forgotten.
Format02x_NoPad(c) == FormatInt(c, 16)

\* f'{c:02x}': at least two hex digits, zero padded, never truncated
Format02x(c) ==
    LET h == FormatInt(c, 16) IN IF Len(h) < 2 THEN <<"0">> \o h ELSE h

\* f"#{''.join(f'{c:02x}' for c in rgb)}"
FormatHex(rgb) == <<"#">> \o Format02x(rgb[1]) \o Format02x(rgb[2]) \o Format02x(rgb[3])

\* f"rgb{rgb}", the str() of a 3-tuple of ints after "rgb"
FormatRgbName(rgb) ==
    <<"r", "g", "b", "(">> \o FormatInt(rgb[1], 10) \o <<",", " ">> \o FormatInt(rgb[2], 10)
            \o <<",", " ">> \o FormatInt(rgb[3], 10) \o <<")">>

---------------------------------------------------------------------------
(* The vocabularies. *)

\* The dict COLOR_MAP, in insertion order (a dict iterates in that order).
COLOR_MAP ==
    << <<<<"r", "e", "d">>, <<255, 0, 0>> >>,
       <<<<"o", "r", "a", "n", "g", "e">>, <<255, 165, 0>> >>,
       <<<<"y", "e", "l", "l", "o", "w">>, <<255, 255, 0>> >>,
       <<<<"c", "h", "a", "r", "t", "r", "e", "u", "s", "e">>, <<127, 255, 0>> >>,
       <<<<"g", "r", "e", "e", "n">>, <<0, 128, 0>> >>,
       <<<<"s", "p", "r", "i", "n", "g">>, <<0, 255, 127>> >>,
       <<<<"c", "y", "a", "n">>, <<0, 255, 255>> >>,
       <<<<"a", "z", "u", "r", "e">>, <<0, 127, 255>> >>,
       <<<<"b", "l", "u", "e">>, <<0, 0, 255>> >>,
       <<<<"v", "i", "o", "l", "e", "t">>, <<138, 43, 226>> >>,
       <<<<"m", "a", "g", "e", "n", "t", "a">>, <<255, 0, 255>> >>,
       <<<<"r", "o", "s", "e">>, <<255, 20, 147>> >>,
       <<<<"p", "i", "n", "k">>, <<255, 192, 203>> >>,
       <<<<"p", "u", "r", "p", "l", "e">>, <<128, 0, 128>> >>,
       <<<<"i", "n", "d", "i", "g", "o">>, <<75, 0, 130>> >>,
       <<<<"t", "u", "r", "q", "u", "o", "i", "s", "e">>, <<64, 224, 208>> >>,
       <<<<"l", "i", "m", "e">>, <<0, 255, 0>> >>,
       <<<<"a", "m", "b", "e", "r">>, <<255, 191, 0>> >>,
       <<<<"c", "o", "r", "a", "l">>, <<255, 127, 80>> >>,
       <<<<"s", "a", "l", "m", "o", "n">>, <<250, 128, 114>> >>,
       <<<<"w", "h", "i", "t", "e">>, <<255, 255, 255>> >>,
       <<<<"b", "l", "a", "c", "k">>, <<0, 0, 0>> >>,
       <<<<"g", "r", "a", "y">>, <<128, 128, 128>> >>,
       <<<<"g", "r", "e", "y">>, <<128, 128, 128>> >> >>

\* The set EFFECTS.
EFFECTS ==
    { <<"f", "a", "d", "e">>, <<"w", "i", "p", "e", "_", "d", "o", "w", "n">>, <<"w", "i", "p", "e", "_", "u", "p">>, <<"w", "i", "p", "e", "_", "l", "e", "f", "t">>, <<"w", "i", "p", "e", "_", "r", "i", "g", "h", "t">>,
      <<"c", "h", "a", "s", "e", "_", "d", "o", "w", "n">>, <<"c", "h", "a", "s", "e", "_", "u", "p">>, <<"c", "h", "a", "s", "e", "_", "s", "p", "i", "r", "a", "l">>, <<"d", "i", "s", "s", "o", "l", "v", "e">>, <<"e", "x", "p", "a", "n", "d">>,
      <<"c", "o", "l", "o", "u", "r", "_", "s", "t", "a", "c", "k">>, <<"c", "o", "l", "o", "u", "r", "_", "r", "a", "i", "n">>, <<"c", "o", "l", "o", "u", "r", "_", "t", "r", "a", "i", "l">>, <<"c", "o", "l", "o", "u", "r", "_", "w", "a", "t", "e", "r", "f", "a", "l", "l">>,
      <<"c", "o", "l", "o", "u", "r", "_", "w", "a", "v", "e">>, <<"c", "o", "l", "o", "u", "r", "_", "s", "p", "i", "r", "a", "l">> }

---------------------------------------------------------------------------
(* sorted(..., key=len, reverse=True): a stable sort, so entries of equal  *)
(* length keep the order in which the iterable produced them.              *)

RECURSIVE MaxLenOf(_)
MaxLenOf(keys) ==
    IF keys = <<>> THEN 0
    ELSE LET m == MaxLenOf(Tail(keys))
         IN IF Len(Head(keys)) > m THEN Len(Head(keys)) ELSE m

RECURSIVE OfKeyLen(_, _, _)
\* the items whose key has length n, in their order; keys[i] is the key of items[i]
OfKeyLen(items, keys, n) ==
    IF items = <<>> THEN <<>>
    ELSE (IF Len(Head(keys)) = n THEN <<Head(items)>> ELSE <<>>)
             \o OfKeyLen(Tail(items), Tail(keys), n)

RECURSIVE BucketsDown(_, _, _)
\* the items by falling key length from n down, equal lengths in their order
BucketsDown(items, keys, n) ==
    IF n < 0 THEN <<>>
    ELSE OfKeyLen(items, keys, n) \o BucketsDown(items, keys, n - 1)

RECURSIVE Firsts(_)
\* x[0] of every item x
Firsts(items) ==
    IF items = <<>> THEN <<>> ELSE <<Head(items)[1]>> \o Firsts(Tail(items))

\* Mutant of sorted_colors: the items in dict order, the sort forgotten.
sorted_colors_Unsorted == COLOR_MAP

\* sorted(COLOR_MAP.items(), key=lambda x: len(x[0]), reverse=True)
sorted_colors == BucketsDown(COLOR_MAP, Firsts(COLOR_MAP), MaxLenOf(Firsts(COLOR_MAP)))

\* Mutant of sorted_effects: the set in iteration order, the sort forgotten.
sorted_effects_Unsorted(order) == order

\* sorted(EFFECTS, key=len, reverse=True), EFFECTS iterated in the given order
sorted_effects(order) == BucketsDown(order, order, MaxLenOf(order))

---------------------------------------------------------------------------
(* color_parser.py: the three matchers. *)

\* "#([0-9A-Fa-f]{6})" matched at position i
HexMatchAt(t, i) ==
    /\ i + 6 <= Len(t)
    /\ t[i] = "#"
    /\ \A k \in 1..6 : IsHexDigit(t[i + k])

\* re.search: the leftmost position >= i with a match, 0 when there is none
HexSearch(t, i) ==
    LET hits == {j \in i..Len(t) : HexMatchAt(t, j)}
    IN IF hits = {} THEN 0 ELSE CHOOSE j \in hits : \A k \in hits : j <= k

parse_hex_color(t) ==
    LET m == HexSearch(t, 1)
    IN IF m = 0 THEN None
       ELSE {<<ParseInt(SubSeq(t, m + 1, m + 2), 16),
               ParseInt(SubSeq(t, m + 3, m + 4), 16),
               ParseInt(SubSeq(t, m + 5, m + 6), 16)>>}

RECURSIVE SkipSpace(_, _)
\* \s* from position i: the position after the whitespace run
SkipSpace(t, i) ==
    IF i <= Len(t) /\ IsSpace(t[i]) THEN SkipSpace(t, i + 1) ELSE i

\* \d* from position i: the position after the digit run
SkipDigits(t, i) ==
    LET stops == {j \in i..Len(t) : ~IsDigit(t[j])}
    IN IF stops # {} THEN CHOOSE j \in stops : \A k \in stops : j <= k
       ELSE IF i > Len(t) THEN i ELSE Len(t) + 1

IsAt(t, i, c) == i <= Len(t) /\ t[i] = c

\* "rgb\s*\(\s*(\d+)\s*,\s*(\d+)\s*,\s*(\d+)\s*\)" with re.IGNORECASE matched
\* at position i: {} when it does not match, else {the three groups}.  The
\* character classes that follow one another are disjoint, so the greedy
\* match is the only one.
RgbMatchAt(t, i) ==
    LET paren == SkipSpace(t, i + 3)
        a1 == SkipSpace(t, paren + 1)
        b1 == SkipDigits(t, a1)
        c1 == SkipSpace(t, b1)
        a2 == SkipSpace(t, c1 + 1)
        b2 == SkipDigits(t, a2)
        c2 == SkipSpace(t, b2)
        a3 == SkipSpace(t, c2 + 1)
        b3 == SkipDigits(t, a3)
        close == SkipSpace(t, b3)
    IN IF /\ i + 2 <= Len(t)
          /\ Lower(SubSeq(t, i, i + 2)) = <<"r", "g", "b">>
          /\ IsAt(t, paren, "(")
          /\ b1 > a1 /\ IsAt(t, c1, ",")
          /\ b2 > a2 /\ IsAt(t, c2, ",")
          /\ b3 > a3 /\ IsAt(t, close, ")")
       THEN {<<SubSeq(t, a1, b1 - 1), SubSeq(t, a2, b2 - 1), SubSeq(t, a3, b3 - 1)>>}
       ELSE {}

RECURSIVE RgbSearch(_, _)
\* re.search: the groups of the leftmost match at a position >= i
RgbSearch(t, i) ==
    IF i > Len(t) THEN {}
    ELSE IF RgbMatchAt(t, i) # {} THEN RgbMatchAt(t, i)
    ELSE RgbSearch(t, i + 1)

parse_rgb_color(t) ==
    LET match == RgbSearch(t, 1)
    IN IF \E g \in match : \E k \in 1..3 : IntOrRaise(g[k]) = None
       THEN {ValueError}
       ELSE {<<ParseInt(g[1], 10), ParseInt(g[2], 10), ParseInt(g[3], 10)>> : g \in match}

RECURSIVE FirstColorIn(_, _)
\* the for loop of find_color_name over the sorted items
FirstColorIn(items, text_lower) ==
    IF items = <<>> THEN None
    ELSE IF Contains(Head(items)[1], text_lower) THEN {Head(items)}
    ELSE FirstColorIn(Tail(items), text_lower)

find_color_name(t) == FirstColorIn(sorted_colors, Lower(t))

Descriptor(name, rgb) == [name |-> name, rgb |-> rgb, hex |-> FormatHex(rgb)]

\* Mutant of extract_color: the colour names are tried first.
extract_color_NamesFirst(t) ==
    IF t = <<>> THEN None
    ELSE LET hex == parse_hex_color(t)
             rgb == parse_rgb_color(t)
             named == find_color_name(t)
         IN IF Truthy(named) THEN {Descriptor(n[1], n[2]) : n \in named}
            ELSE IF Truthy(hex) THEN {Descriptor(FormatHex(c), c) : c \in hex}
            ELSE IF Truthy(rgb) THEN {Descriptor(FormatRgbName(c), c) : c \in rgb}
            ELSE None

\* Mutant of extract_color: white instead of None when nothing matches.
extract_color_DefaultOnMiss(t) ==
    IF t = <<>> THEN None
    ELSE LET hex == parse_hex_color(t)
             rgb == parse_rgb_color(t)
             named == find_color_name(t)
         IN IF Truthy(hex) THEN {Descriptor(FormatHex(c), c) : c \in hex}
            ELSE IF Truthy(rgb) THEN {Descriptor(FormatRgbName(c), c) : c \in rgb}
            ELSE IF Truthy(named) THEN {Descriptor(n[1], n[2]) : n \in named}
            ELSE {Descriptor(<<"w", "h", "i", "t", "e">>, <<255, 255, 255>>)}

extract_color(t) ==
    IF Falsy(t) THEN None
    ELSE LET hex == parse_hex_color(t)
             rgb == parse_rgb_color(t)
             named == find_color_name(t)
         IN IF Truthy(hex) THEN {Descriptor(FormatHex(c), c) : c \in hex}
            ELSE IF rgb = {ValueError} THEN {Raise(ValueError)}
            ELSE IF Truthy(rgb) THEN {Descriptor(FormatRgbName(c), c) : c \in rgb}
            ELSE IF Truthy(named) THEN {Descriptor(n[1], n[2]) : n \in named}
            ELSE None

\* Mutant of get_default_color: one module-level dict is handed out on
\* every call, so what a caller wrote to it comes back.
get_default_color_Shared ==
    IF Truthy(held) THEN CHOOSE d \in held : TRUE
    ELSE Descriptor(<<"w", "h", "i", "t", "e">>, <<255, 255, 255>>)

\* a new dict on every call
get_default_color == Descriptor(<<"w", "h", "i", "t", "e">>, <<255, 255, 255>>)

RECURSIVE FirstEffectIn_UnderscoreOnly(_, _)
\* Mutant of FirstEffectIn: the form with spaces is not tried.
FirstEffectIn_UnderscoreOnly(effects, text_lower) ==
    IF effects = <<>> THEN None
    ELSE IF Contains(Head(effects), text_lower) THEN {Head(effects)}
    ELSE FirstEffectIn_UnderscoreOnly(Tail(effects), text_lower)

RECURSIVE FirstEffectIn(_, _)
\* the for loop of extract_effect over the sorted effects
FirstEffectIn(effects, text_lower) ==
    IF effects = <<>> THEN None
    ELSE IF \/ Contains(Head(effects), text_lower)
            \/ Contains(Replace(Head(effects), "_", " "), text_lower)
         THEN {Head(effects)}
    ELSE FirstEffectIn(Tail(effects), text_lower)

extract_effect(t, order) ==
    IF Falsy(t) THEN None
    ELSE FirstEffectIn(sorted_effects(order), Lower(t))

---------------------------------------------------------------------------
(* The order in which a process iterates the set EFFECTS.  It follows the  *)
(* hashes of the strings, which Python salts anew for every process, so    *)
(* any permutation can come up.  Only the relative order of effects of     *)
(* equal length survives the stable sort; the orders below realise every   *)
(* one of those.                                                           *)

EffectsOfLen(n) == {e \in EFFECTS : Len(e) = n}

Perms(S) ==
    {p \in [1..Cardinality(S) -> S] : \A i, j \in DOMAIN p : p[i] = p[j] => i = j}

RECURSIVE OrdersFrom(_)
OrdersFrom(n) ==
    IF n > 16 THEN {<<>>}
    ELSE {p \o rest : p \in Perms(EffectsOfLen(n)), rest \in OrdersFrom(n + 1)}

SetIterationOrders == OrdersFrom(1)

\* The order in which the source lists the effects.
SourceOrder ==
    <<<<"f", "a", "d", "e">>, <<"w", "i", "p", "e", "_", "d", "o", "w", "n">>, <<"w", "i", "p", "e", "_", "u", "p">>, <<"w", "i", "p", "e", "_", "l", "e", "f", "t">>, <<"w", "i", "p", "e", "_", "r", "i", "g", "h", "t">>,
      <<"c", "h", "a", "s", "e", "_", "d", "o", "w", "n">>, <<"c", "h", "a", "s", "e", "_", "u", "p">>, <<"c", "h", "a", "s", "e", "_", "s", "p", "i", "r", "a", "l">>, <<"d", "i", "s", "s", "o", "l", "v", "e">>, <<"e", "x", "p", "a", "n", "d">>,
      <<"c", "o", "l", "o", "u", "r", "_", "s", "t", "a", "c", "k">>, <<"c", "o", "l", "o", "u", "r", "_", "r", "a", "i", "n">>, <<"c", "o", "l", "o", "u", "r", "_", "t", "r", "a", "i", "l">>, <<"c", "o", "l", "o", "u", "r", "_", "w", "a", "t", "e", "r", "f", "a", "l", "l">>,
      <<"c", "o", "l", "o", "u", "r", "_", "w", "a", "v", "e">>, <<"c", "o", "l", "o", "u", "r", "_", "s", "p", "i", "r", "a", "l">>>>

---------------------------------------------------------------------------
(* The texts the extraction functions are run on. *)

RECURSIVE Concats(_, _)
\* every concatenation of at most n fragments of the pool
Concats(pool, n) ==
    IF n = 0 THEN {<<>>}
    ELSE LET shorter == Concats(pool, n - 1)
         IN shorter \cup {t \o f : t \in shorter, f \in pool}

PaletteNames == {COLOR_MAP[i][1] : i \in 1..Len(COLOR_MAP)}

\* Pieces of colour syntax: names, hex codes whole and cut short, the parts
\* of an rgb(...) call with and without whitespace and with a value above 255.
ColorFragments ==
    { <<"r", "e", "d">>, <<"g", "r", "e", "e", "n">>, <<"s", "p", "r", "i", "n", "g">>, <<"R", "o", "s", "e">>, <<"b", "l", "a", "c", "k">>, <<"h", "e", "l", "l", "o">>, <<" ">>,
      <<"#", "A", "A", "B", "B", "C", "C">>, <<"#", "1", "2", "3", "4", "5">>, <<"r", "g", "b">>, <<"R", "G", "B", " ">>, <<"(", "1", ",", "2", ",", "3", ")">>, <<"(", " ", "3", "0", "0", " ", ",", " ", "0", ",", "2", "5", "5", " ", ")">>,
      <<"(", "0", ",", "0", ",", "0", ")">>, <<"(", "1", ",", "2", ")">> }

\* Texts of the unit tests and of the documentation, and a few more
\* that combine the three syntaxes.
ColorExamples ==
    { <<"s", "p", "r", "i", "n", "g", " ", "g", "r", "e", "e", "n">>, <<"g", "r", "e", "e", "n", " ", "s", "p", "r", "i", "n", "g">>, <<"m", "a", "k", "e", " ", "i", "t", " ", "p", "u", "r", "p", "l", "e">>, <<"r", "e", "d", "d", "i", "s", "h">>,
      <<"r", "e", "d", " ", "#", "F", "F", "0", "0", "0", "0", " ", "b", "l", "u", "e">>, <<"r", "e", "d", " ", "r", "g", "b", "(", "0", ",", "2", "5", "5", ",", "0", ")", " ", "b", "l", "u", "e">>, <<"r", "g", "b", "(", "1", "0", "0", ",", " ", "2", "0", "0", ",", " ", "5", "0", ")">>,
      <<"r", "g", "b", "(", " ", "1", "2", "8", " ", ",", " ", "6", "4", " ", ",", " ", "3", "2", " ", ")">>, <<"r", "g", "b", "(", "2", "5", "5", " ", "0", " ", "0", ")">>, <<"2", "5", "5", ",", "0", ",", "0">>, <<"R", "E", "D", " ", "R", "E", "D", " ", "R", "E", "D">>,
      <<"T", "h", "i", "s", " ", "i", "s", " ", "j", "u", "s", "t", " ", "t", "e", "x", "t">>, <<"M", "a", "k", "e", " ", "i", "t", " ", "g", "r", "e", "e", "n", " ", "p", "l", "e", "a", "s", "e">>, <<"g", "r", "a", "y", " ", "g", "r", "e", "y">>,
      <<"r", "g", "b", " ", "(", "1", ",", "2", ",", "3", ")">>, <<"b", "l", "u", "e", " ", "r", "g", "b", "(", "1", ",", "2", ",", "3", ")", " ", "#", "0", "0", "f", "f", "7", "F">>, <<"r", "g", "b", "(", "0", ",", "0", ",", "0", ")", " ", "w", "h", "i", "t", "e">> }

ColorTexts == Concats(ColorFragments, MaxFrags) \cup PaletteNames \cup ColorExamples

\* Pieces of effect syntax: keywords in both surface forms, two pairs of
\* equal length, and keywords cut in two.
EffectFragments ==
    { <<"w", "i", "p", "e", "_", "d", "o", "w", "n">>, <<"w", "i", "p", "e", "_", "l", "e", "f", "t">>, <<"c", "h", "a", "s", "e", " ", "s", "p", "i", "r", "a", "l">>, <<"f", "a", "d", "e">>, <<"w", "i", "p", "e">>, <<"_", "u", "p">>, <<" ">> }

UpperChar(c) ==
    IF \E u \in DOMAIN ToLowerTable : ToLowerTable[u] = c
    THEN CHOOSE u \in DOMAIN ToLowerTable : ToLowerTable[u] = c
    ELSE c

RECURSIVE Upper(_)
\* str.upper()
Upper(s) == IF s = <<>> THEN <<>> ELSE <<UpperChar(Head(s))>> \o Upper(Tail(s))

\* every keyword, in its underscore form, its space form and in capitals,
\* alone and with other characters around it
KeywordTexts ==
    { pre \o form \o post :
        pre \in {<<>>, <<"x">>}, post \in {<<>>, <<" ">>},
        form \in UNION {{e, Replace(e, "_", " "), Upper(Replace(e, "_", " "))} : e \in EFFECTS} }

EffectExamples ==
    { <<"w", "i", "p", "e", " ", "d", "o", "w", "n", " ", "t", "o", " ", "b", "l", "u", "e">>, <<"F", "A", "D", "E", " ", "t", "o", " ", "r", "e", "d">>, <<"u", "s", "e", " ", "c", "o", "l", "o", "u", "r", " ", "s", "p", "i", "r", "a", "l", " ", "e", "f", "f", "e", "c", "t">>,
      <<"m", "a", "k", "e", " ", "i", "t", " ", "r", "e", "d">>, <<"c", "h", "a", "s", "e", "_", "s", "p", "i", "r", "a", "l">>, <<"w", "i", "p", "e", "_", "l", "e", "f", "t", " ", "c", "h", "a", "s", "e", "_", "d", "o", "w", "n">>,
      <<"c", "o", "l", "o", "u", "r", "_", "s", "t", "a", "c", "k", " ", "c", "h", "a", "s", "e", "_", "s", "p", "i", "r", "a", "l", " ", "c", "o", "l", "o", "u", "r", "_", "t", "r", "a", "i", "l">>, <<"W", "I", "P", "E", "_", "R", "I", "G", "H", "T">> }

EffectTexts == Concats(EffectFragments, MaxFrags) \cup KeywordTexts \cup EffectExamples

---------------------------------------------------------------------------
(* platforms/mastodon.py and platforms/bluesky.py: the platform objects.   *)
(* What the remote API does during a call is an argument of the method:    *)
(* it answers or it raises.  A method gives the object after the call      *)
(* (where it writes to it), the value it returns and the remote API calls  *)
(* it made, in order.                                                      *)

\* `not value` for a configuration value (None when the key is missing)
Blank(value) == ~Truthy(value) \/ value = {""}

\* MastodonPlatform.__init__
MastodonPlatform == [client |-> None, instance_url |-> None]

\* BlueskyPlatform.__init__
BlueskyPlatform == [client |-> None, debug |-> FALSE]

\* MastodonPlatform.initialize(config); answer says what the Mastodon
\* constructor and account_verify_credentials do
MastodonPlatform_initialize(self, cfg, answer) ==
    LET assigned == [self EXCEPT !.instance_url = cfg.instance_url]
    IN IF Blank(cfg.instance_url) \/ Blank(cfg.access_token)
       THEN [self |-> assigned, ret |-> FALSE, remote |-> <<>>]
       ELSE IF answer = "Mastodon raises"
       THEN [self |-> assigned, ret |-> FALSE, remote |-> <<>>]
       ELSE [self |-> [assigned EXCEPT !.client = {"Mastodon"}],
             ret |-> (answer # "account_verify_credentials raises"),
             remote |-> <<[api |-> "account_verify_credentials"]>>]

\* BlueskyPlatform.initialize(config); answer says what login does
BlueskyPlatform_initialize(self, cfg, answer) ==
    LET flagged ==
            [self EXCEPT !.debug = Lower(cfg.debug) \in {<<"t", "r", "u", "e">>, <<"1">>, <<"y", "e", "s">>, <<"o", "n">>}]
    IN IF Blank(cfg.identifier) \/ Blank(cfg.password)
       THEN [self |-> flagged, ret |-> FALSE, remote |-> <<>>]
       ELSE [self |-> [flagged EXCEPT !.client = {"Client"}],
             ret |-> (answer # "login raises"),
             remote |-> <<[api |-> "login"]>>]

\* a JSON null where a dict is expected
JsonNull == [null |-> TRUE]

\* what status.get(...) gives for the status {} of a notification without one
EmptyStatus == [content |-> <<>>, id |-> None, created_at |-> None, account |-> ""]

RECURSIVE MastodonMentions(_, _, _)
\* the for loop of MastodonPlatform.get_latest_mentions from notification i
\* on: it returns the mentions or raises
MastodonMentions(notifications, i, mentions) ==
    IF i > Len(notifications) THEN [kind |-> "return", mentions |-> mentions]
    ELSE LET notification == notifications[i]
         IN IF notification.type = None
            THEN [kind |-> "raise", error |-> "KeyError"]
            ELSE IF notification.type # {"mention"}
            THEN MastodonMentions(notifications, i + 1, mentions)
            ELSE IF notification.status = {JsonNull}
            THEN [kind |-> "raise", error |-> "AttributeError"]
            ELSE LET status == IF notification.status = None THEN EmptyStatus
                               ELSE CHOOSE st \in notification.status : TRUE
                 IN MastodonMentions(notifications, i + 1,
                        Append(mentions,
                               [text |-> status.content, id |-> status.id,
                                created_at |-> status.created_at,
                                account |-> status.account]))

\* Mutant of MastodonPlatform_get_latest_mentions: the client is not tested
\* before it is used.
MastodonPlatform_get_latest_mentions_NoClientTest(self, limit, answer) ==
    LET call == [api |-> "notifications", limit |-> limit]
    IN IF answer.kind = "raise" THEN [ret |-> <<>>, remote |-> <<call>>]
       ELSE LET done == MastodonMentions(answer.notifications, 1, <<>>)
            IN [ret |-> IF done.kind = "raise" THEN <<>> ELSE done.mentions,
                remote |-> <<call>>]

\* MastodonPlatform.get_latest_mentions(limit); answer says what
\* client.notifications does
MastodonPlatform_get_latest_mentions(self, limit, answer) ==
    IF ~Truthy(self.client) THEN [ret |-> <<>>, remote |-> <<>>]
    ELSE LET call == [api |-> "notifications", limit |-> limit]
         IN IF answer.kind = "raise" THEN [ret |-> <<>>, remote |-> <<call>>]
            ELSE LET done == MastodonMentions(answer.notifications, 1, <<>>)
                 IN [ret |-> IF done.kind = "raise" THEN <<>> ELSE done.mentions,
                     remote |-> <<call>>]

\* the post URI of a notification: its subject's URI, else its own URI if
\* that names a post
PostUriOf(notification) ==
    IF Truthy(notification.subject) THEN notification.subject
    ELSE IF Contains(<<"a", "p", "p", ".", "b", "s", "k", "y", ".", "f", "e", "e", "d", ".", "p", "o", "s", "t">>, notification.uri) THEN {notification.uri}
    ELSE None

\* Mutant of Processed: notifications of every reason are processed.
Processed_AnyReason(reason) == TRUE

\* `reason not in ['mention', 'reply']` does not hold
Processed(reason) == reason \in {{"mention"}, {"reply"}}

RECURSIVE BlueskyMentions(_, _, _, _)
\* the second for loop of BlueskyPlatform.get_latest_mentions from
\* notification i on; done holds the mentions and the remote calls so far
BlueskyMentions(notifications, i, limit, done) ==
    IF i > Len(notifications) THEN done
    ELSE LET notification == notifications[i]
             post_uri == PostUriOf(notification)
             uri == CHOOSE u \in post_uri : TRUE
             fetched == [done EXCEPT !.remote = Append(@, [api |-> "get_posts", uris |-> <<uri>>])]
             post == notification.posts.posts[1]
             Added(sofar, post_text, author_handle) ==
                 LET mentions == Append(sofar.mentions,
                                        [text |-> post_text, id |-> uri,
                                         created_at |-> notification.indexed_at,
                                         account |-> IF author_handle # "" THEN author_handle
                                                     ELSE notification.author])
                     grown == [sofar EXCEPT !.mentions = mentions]
                 IN IF Len(mentions) >= limit THEN grown
                    ELSE BlueskyMentions(notifications, i + 1, limit, grown)
         IN IF ~Processed(notification.reason)
            THEN BlueskyMentions(notifications, i + 1, limit, done)
            ELSE IF ~Truthy(post_uri)
            THEN BlueskyMentions(notifications, i + 1, limit, done)
            ELSE IF notification.text # <<>>
            THEN Added(done, notification.text, notification.author)
            ELSE IF notification.posts.kind = "raise"
            THEN BlueskyMentions(notifications, i + 1, limit, fetched)
            ELSE IF notification.posts.posts = <<>>
            THEN BlueskyMentions(notifications, i + 1, limit, fetched)
            ELSE IF post.text = <<>>
            THEN BlueskyMentions(notifications, i + 1, limit, fetched)
            ELSE Added(fetched, post.text, post.author)

\* max(limit * 3, 50)
RequestLimit(limit) == IF limit * 3 > 50 THEN limit * 3 ELSE 50

\* BlueskyPlatform.get_latest_mentions(limit); answer says what
\* list_notifications does and, for each notification, what get_posts does
BlueskyPlatform_get_latest_mentions(self, limit, answer) ==
    IF ~Truthy(self.client) THEN [ret |-> <<>>, remote |-> <<>>]
    ELSE LET call == [api |-> "list_notifications", limit |-> RequestLimit(limit)]
         IN IF answer.kind = "raise" THEN [ret |-> <<>>, remote |-> <<call>>]
            ELSE LET done == BlueskyMentions(answer.notifications, 1, limit,
                                             [mentions |-> <<>>, remote |-> <<call>>])
                 IN [ret |-> done.mentions, remote |-> done.remote]

---------------------------------------------------------------------------
(* Calls of extract_color and get_default_color. *)

\* No platform object has been used and no thread handles a request.
NewPlatforms ==
    /\ threads = <<>>
    /\ feed = <<>>
    /\ mastodon = MastodonPlatform
    /\ bluesky = BlueskyPlatform
    /\ initialize_ret = [mastodon |-> None, bluesky |-> None]
    /\ args = None
    /\ remote = <<>>

\* A process that serves no HTTP request.
NoServer ==
    /\ NewPlatforms
    /\ API_KEY = None
    /\ PLATFORMS = {}
    /\ ACTIVE_PLATFORM = None
    /\ request = NoRequest
    /\ calls = <<>>
    /\ response = NoResponse

InitColor ==
    /\ text \in ColorTexts
    /\ set_order = SourceOrder
    /\ op = "idle"
    /\ ret = None
    /\ held = None
    /\ NoServer

CallExtractColor ==
    /\ op' = "extract_color"
    /\ ret' = extract_color(text)
    /\ UNCHANGED <<text, set_order, held, config_vars, http_vars, platform_vars, worker_vars>>

CallGetDefaultColor ==
    /\ op' = "get_default_color"
    /\ ret' = {get_default_color}
    /\ UNCHANGED <<text, set_order, held, config_vars, http_vars, platform_vars, worker_vars>>

CallFindColorName ==
    /\ op' = "find_color_name"
    /\ ret' = find_color_name(text)
    /\ UNCHANGED <<text, set_order, held, config_vars, http_vars, platform_vars, worker_vars>>

\* what a caller may write to a dict it got from get_default_color
Modified(d) == {[d EXCEPT !.name = <<"r", "e", "d">>], [d EXCEPT !.rgb = <<0, 0, 0>>]}

\* the caller keeps the dict that get_default_color returned and writes to it
ModifyReturned ==
    /\ op = "get_default_color"
    /\ held = None
    /\ \E d \in ret : \E e \in Modified(d) : held' = {e} /\ ret' = {e}
    /\ op' = "modified"
    /\ UNCHANGED <<text, set_order, config_vars, http_vars, platform_vars, worker_vars>>

NextColor == CallExtractColor \/ CallFindColorName \/ CallGetDefaultColor \/ ModifyReturned

SpecColor == InitColor /\ [][NextColor]_vars

---------------------------------------------------------------------------
(* Calls of extract_effect, in a process with any iteration order. *)

InitEffect ==
    /\ text \in EffectTexts
    /\ set_order \in SetIterationOrders
    /\ op = "idle"
    /\ ret = None
    /\ held = None
    /\ NoServer

CallExtractEffect ==
    /\ op' = "extract_effect"
    /\ ret' = extract_effect(text, set_order)
    /\ UNCHANGED <<text, set_order, held, config_vars, http_vars, platform_vars, worker_vars>>

NextEffect == CallExtractEffect

SpecEffect == InitEffect /\ [][NextEffect]_vars

---------------------------------------------------------------------------
(* Calls of extract_color and extract_effect with any input a caller may   *)
(* pass: None, the empty string, short texts, and a text whose rgb(...)    *)
(* pattern carries a number of more digits than int() converts.            *)

LongNumber == [i \in 1..(INT_MAX_STR_DIGITS + 1) |-> "1"]

InputTexts ==
    ColorTexts \cup EffectExamples
        \cup {NoText, <<>>, <<" ">>, <<"r", "g", "b", "(">> \o LongNumber \o <<",", "0", ",", "0", ")">>}

InitInputs ==
    /\ text \in InputTexts
    /\ set_order \in {SourceOrder, Reverse(SourceOrder)}
    /\ op = "idle"
    /\ ret = None
    /\ held = None
    /\ NoServer

NextInputs == CallExtractColor \/ CallExtractEffect

SpecInputs == InitInputs /\ [][NextInputs]_vars

---------------------------------------------------------------------------
(* app.py: the application and its /api/v1/color handler. *)

\* Mutant of InitializePlatforms: Bluesky becomes the active platform
\* whenever it initialized.
InitializePlatforms_BlueskyFirst(initialized) ==
    <<initialized,
      IF "bluesky" \in initialized THEN {"bluesky"}
      ELSE IF "mastodon" \in initialized THEN {"mastodon"} ELSE None>>

\* _initialize_platforms, given the platforms whose initialize() returned
\* True: <<the keys of the platform map, the active platform>>
InitializePlatforms(initialized) ==
    LET after_mastodon == IF "mastodon" \in initialized THEN {"mastodon"} ELSE None
        after_bluesky ==
            IF "bluesky" \in initialized /\ ~Truthy(after_mastodon)
            THEN {"bluesky"} ELSE after_mastodon
    IN <<initialized, after_bluesky>>

\* Mutant of KeyAccepted: any key that is provided is accepted.
KeyAccepted_AnyKey(api_key, provided_key) ==
    \/ ~Truthy(api_key)
    \/ ~(~Truthy(provided_key) \/ provided_key = {<<>>})

\* require_api_key: whether the decorated handler runs
KeyAccepted(api_key, provided_key) ==
    \/ ~Truthy(api_key)
    \/ ~(~Truthy(provided_key) \/ provided_key = {<<>>} \/ provided_key # api_key)

Unauthorized ==
    [status |-> 401, body |-> [error |-> "Unauthorized"]]

RECURSIVE TagEnd(_, _)
\* with "<" just before position i: the position of the ">" that ends the
\* run of non-">" characters starting at i (0 when the text ends first)
TagEnd(t, i) ==
    IF i > Len(t) THEN 0
    ELSE IF t[i] = ">" THEN i
    ELSE TagEnd(t, i + 1)

\* Mutant of StripTags: the text is left as the platform sent it.
StripTags_Keep(t) == t

RECURSIVE TagEndInner(_, _)
\* as TagEnd, for a run of characters that are neither "<" nor ">"
TagEndInner(t, i) ==
    IF i > Len(t) THEN 0
    ELSE IF t[i] = ">" THEN i
    ELSE IF t[i] = "<" THEN 0
    ELSE TagEndInner(t, i + 1)

RECURSIVE StripTags_Innermost(_)
\* Mutant of StripTags: the pattern is <[^<>]+>, so a "<" inside a tag
\* starts the tag anew.
StripTags_Innermost(t) ==
    IF t = <<>> THEN <<>>
    ELSE LET close == TagEndInner(t, 2)
         IN IF Head(t) = "<" /\ close > 2
            THEN StripTags_Innermost(SubSeq(t, close + 1, Len(t)))
            ELSE <<Head(t)>> \o StripTags_Innermost(Tail(t))

RECURSIVE StripTags(_)
\* re.sub(r"<[^>]+>", "", text)
StripTags(t) ==
    IF t = <<>> THEN <<>>
    ELSE LET close == TagEnd(t, 2)
         IN IF Head(t) = "<" /\ close > 2
            THEN StripTags(SubSeq(t, close + 1, Len(t)))
            ELSE <<Head(t)>> \o StripTags(Tail(t))

RECURSIVE ScanMentions_LastWins(_, _, _)
\* Mutant of ScanMentions: the loop runs on and the last colour wins.
ScanMentions_LastWins(mentions, i, platform_name) ==
    IF i > Len(mentions) THEN None
    ELSE LET mention == mentions[i]
             cleaned == StripTags(mention.text)
             color == extract_color(cleaned)
             effect == extract_effect(cleaned, set_order)
             later == ScanMentions_LastWins(mentions, i + 1, platform_name)
         IN IF Truthy(later) THEN later
            ELSE IF Truthy(color)
            THEN {[color |-> color,
                   effect |-> effect,
                   mention |-> [text |-> cleaned, id |-> mention.id,
                                account |-> mention.account,
                                created_at |-> mention.created_at],
                   platform |-> platform_name]}
            ELSE None

RECURSIVE ScanMentions_FirstEffect(_, _, _, _)
\* Mutant of ScanMentions: the effect is the first one found in any mention
\* scanned so far (seen), not the one of the mention with the colour.
ScanMentions_FirstEffect(mentions, i, platform_name, seen) ==
    IF i > Len(mentions) THEN None
    ELSE LET mention == mentions[i]
             cleaned == StripTags(mention.text)
             color == extract_color(cleaned)
             effect == IF Truthy(seen) THEN seen ELSE extract_effect(cleaned, set_order)
         IN IF Truthy(color)
            THEN {[color |-> color,
                   effect |-> effect,
                   mention |-> [text |-> cleaned, id |-> mention.id,
                                account |-> mention.account,
                                created_at |-> mention.created_at],
                   platform |-> platform_name]}
            ELSE ScanMentions_FirstEffect(mentions, i + 1, platform_name, effect)

\* Mutant of ScanMentions, with the parameters of ScanMentions.
ScanMentions_AnyEffect(mentions, i, platform_name) ==
    ScanMentions_FirstEffect(mentions, i, platform_name, None)

RECURSIVE ScanMentions_AccountOfFirst(_, _, _)
\* Mutant of ScanMentions: the account is read from the first mention of
\* the list.
ScanMentions_AccountOfFirst(mentions, i, platform_name) ==
    IF i > Len(mentions) THEN None
    ELSE LET mention == mentions[i]
             cleaned == StripTags(mention.text)
             color == extract_color(cleaned)
             effect == extract_effect(cleaned, set_order)
         IN IF Truthy(color)
            THEN {[color |-> color,
                   effect |-> effect,
                   mention |-> [text |-> cleaned, id |-> mention.id,
                                account |-> mentions[1].account,
                                created_at |-> mention.created_at],
                   platform |-> platform_name]}
            ELSE ScanMentions_AccountOfFirst(mentions, i + 1, platform_name)

RECURSIVE ScanMentions(_, _, _)
\* the for loop of get_color from mention i on: the body of the response
\* for the first mention with a colour, None when the loop ends without
\* one, the exception when extract_color raises
ScanMentions(mentions, i, platform_name) ==
    IF i > Len(mentions) THEN None
    ELSE LET mention == mentions[i]
             cleaned == StripTags(mention.text)
             color == extract_color(cleaned)
             effect == extract_effect(cleaned, set_order)
         IN IF color = {Raise(ValueError)} THEN color
            ELSE IF Truthy(color)
            THEN {[color |-> color,
                   effect |-> effect,
                   mention |-> [text |-> cleaned, id |-> mention.id,
                                account |-> mention.account,
                                created_at |-> mention.created_at],
                   platform |-> platform_name]}
            ELSE ScanMentions(mentions, i + 1, platform_name)

\* Mutant of ColorResponse: the empty list is not told apart and falls
\* through the loop to the no-colour answer.
ColorResponse_NoEmptyCheck(outcome, platform_name) ==
    IF outcome.kind = "raise"
    THEN [status |-> 500, body |-> [error |-> outcome.error, platform |-> platform_name]]
    ELSE LET found == ScanMentions(outcome.mentions, 1, platform_name)
         IN IF Truthy(found)
            THEN [status |-> 200, body |-> CHOOSE b \in found : TRUE]
            ELSE [status |-> 200,
                  body |-> [color |-> {get_default_color}, effect |-> None,
                            message |-> "No color found in recent mentions",
                            platform |-> platform_name,
                            mentions_checked |-> Len(outcome.mentions)]]

\* Mutant of ColorResponse: mentions_checked counts only the mentions
\* before the last one.
ColorResponse_CountShort(outcome, platform_name) ==
    IF outcome.kind = "raise"
    THEN [status |-> 500, body |-> [error |-> outcome.error, platform |-> platform_name]]
    ELSE IF outcome.mentions = <<>>
    THEN [status |-> 200,
          body |-> [color |-> {get_default_color}, effect |-> None,
                    message |-> "No mentions found", platform |-> platform_name]]
    ELSE LET found == ScanMentions(outcome.mentions, 1, platform_name)
         IN IF Truthy(found)
            THEN [status |-> 200, body |-> CHOOSE b \in found : TRUE]
            ELSE [status |-> 200,
                  body |-> [color |-> {get_default_color}, effect |-> None,
                            message |-> "No color found in recent mentions",
                            platform |-> platform_name,
                            mentions_checked |-> Len(outcome.mentions) - 1]]

\* the try block of get_color, given what get_latest_mentions did
ColorResponse(outcome, platform_name) ==
    IF outcome.kind = "raise"
    THEN [status |-> 500, body |-> [error |-> outcome.error, platform |-> platform_name]]
    ELSE IF outcome.mentions = <<>>
    THEN [status |-> 200,
          body |-> [color |-> {get_default_color}, effect |-> None,
                    message |-> "No mentions found", platform |-> platform_name]]
    ELSE LET found == ScanMentions(outcome.mentions, 1, platform_name)
         IN IF found = {Raise(ValueError)}
            THEN [status |-> 500, body |-> [error |-> "ValueError", platform |-> platform_name]]
            ELSE IF Truthy(found)
            THEN [status |-> 200, body |-> CHOOSE b \in found : TRUE]
            ELSE [status |-> 200,
                  body |-> [color |-> {get_default_color}, effect |-> None,
                            message |-> "No color found in recent mentions",
                            platform |-> platform_name,
                            mentions_checked |-> Len(outcome.mentions)]]

RECURSIVE CleanedMentions(_, _)
\* the for loop of get_mentions from mention i on: cleaned_mentions
CleanedMentions(mentions, i) ==
    IF i > Len(mentions) THEN <<>>
    ELSE LET mention == mentions[i]
         IN <<[text |-> StripTags(mention.text), id |-> mention.id,
               account |-> mention.account, created_at |-> mention.created_at]>>
                \o CleanedMentions(mentions, i + 1)

\* Mutant of MentionsResponse: an error of the platform is answered like an
\* empty list.
MentionsResponse_ErrorAsEmpty(outcome, platform_name) ==
    LET cleaned_mentions ==
            IF outcome.kind = "raise" THEN <<>> ELSE CleanedMentions(outcome.mentions, 1)
    IN [status |-> 200,
        body |-> [mentions |-> cleaned_mentions, count |-> Len(cleaned_mentions),
                  platform |-> platform_name]]

\* the try block of get_mentions, given what get_latest_mentions did
MentionsResponse(outcome, platform_name) ==
    IF outcome.kind = "raise"
    THEN [status |-> 500, body |-> [error |-> outcome.error, platform |-> platform_name]]
    ELSE LET cleaned_mentions == CleanedMentions(outcome.mentions, 1)
         IN [status |-> 200,
             body |-> [mentions |-> cleaned_mentions, count |-> Len(cleaned_mentions),
                       platform |-> platform_name]]

\* request.args.get("platform", active_platform)
PlatformName(req) == IF req.platform # None THEN req.platform ELSE ACTIVE_PLATFORM

\* Mutant of Limit: the limit parameter is not read.
Limit_Default(req) == {10}

\* int(request.args.get("limit", 10))
Limit(req) == IF req.limit # None THEN UNION {IntOrRaise(l) : l \in req.limit} ELSE {10}

PlatformAvailable(platform_name) ==
    ~(~Truthy(platform_name) \/ platform_name = {""} \/ ~(platform_name \subseteq PLATFORMS))

---------------------------------------------------------------------------
(* The requests a client sends and what a platform answers. *)

\* X-API-Key: absent, the configured key, another key, present but empty
Headers == {None, {<<"s", "e", "c", "r", "e", "t">>}, {<<"w", "r", "o", "n", "g">>}, {<<>>}}

PlatformArgs == {None, {"mastodon"}, {"bluesky"}, {"twitter"}}

LimitArgs == {None, {<<"2">>}, {<<"a", "b", "c">>}}

ColorRequests ==
    [endpoint : {"/api/v1/color"}, key : Headers, platform : PlatformArgs, limit : LimitArgs]

MentionsRequests ==
    [endpoint : {"/api/v1/mentions"}, key : Headers, platform : PlatformArgs, limit : LimitArgs]

\* list_platforms reads no query parameter
PlatformsRequests ==
    [endpoint : {"/api/v1/platforms"}, key : Headers, platform : {None}, limit : {None}]

\* Mention texts: plain; with markup and a colour; with a colour between
\* two effects; with effects and a colour that stands only inside a tag,
\* and a "<>" that is no tag.
MentionTexts ==
    { <<"h", "e", "l", "l", "o">>, <<"<", "p", ">", "m", "a", "k", "e", " ", "i", "t", " ", "<", "b", ">", "p", "u", "r", "p", "l", "e", "<", "/", "b", ">", "<", "/", "p", ">">>, <<"w", "i", "p", "e", "_", "u", "p", " ", "y", "e", "l", "l", "o", "w", " ", "f", "a", "d", "e">>,
      <<"<", "i", " ", "c", "l", "a", "s", "s", "=", "r", "e", "d", ">", "w", "i", "p", "e", "_", "l", "e", "f", "t", " ", "w", "i", "p", "e", "_", "d", "o", "w", "n", "<", "/", "i", ">", "<", ">">> }

MentionIds == <<"id1", "id2", "id3", "id4">>

MentionAccounts == <<"user1", "user2", "user3", "user4">>

MentionTimes == <<"t1", "t2", "t3", "t4">>

RECURSIVE MentionLists(_)
\* the lists of n mentions; the i-th carries the i-th id, account and time
MentionLists(n) ==
    IF n = 0 THEN {<<>>}
    ELSE {Append(l, [text |-> t, id |-> MentionIds[n], account |-> MentionAccounts[n],
                     created_at |-> MentionTimes[n]]) :
            l \in MentionLists(n - 1), t \in MentionTexts}

\* what a call of get_latest_mentions does: return a list or raise
Outcomes ==
    {[kind |-> "ok", mentions |-> l] : l \in UNION {MentionLists(n) : n \in 0..MaxMentions}}
        \cup {[kind |-> "raise", error |-> "Connection failed"]}

---------------------------------------------------------------------------
(* The server: create_app, then one request after another. *)

Init ==
    /\ text = <<>>
    /\ op = "idle"
    /\ ret = None
    /\ held = None
    /\ set_order \in {SourceOrder, Reverse(SourceOrder)}
    /\ API_KEY \in {None, {<<"s", "e", "c", "r", "e", "t">>}}
    /\ \E initialized \in SUBSET {"mastodon", "bluesky"} :
          /\ PLATFORMS = InitializePlatforms(initialized)[1]
          /\ ACTIVE_PLATFORM = InitializePlatforms(initialized)[2]
    /\ request = NoRequest
    /\ calls = <<>>
    /\ response = NoResponse
    /\ NewPlatforms

\* GET /api/v1/color: rejected by require_api_key
GetColorUnauthorized(req) ==
    /\ ~KeyAccepted(API_KEY, req.key)
    /\ calls' = <<>>
    /\ response' = Unauthorized

\* GET /api/v1/color: int() raises on the limit parameter, outside the try
GetColorBadLimit(req) ==
    /\ KeyAccepted(API_KEY, req.key)
    /\ Limit(req) = None
    /\ calls' = <<>>
    /\ response' = [status |-> 500, body |-> [unhandled |-> "ValueError"]]

\* GET /api/v1/color: the platform is not available
GetColorNoPlatform(req) ==
    /\ KeyAccepted(API_KEY, req.key)
    /\ Limit(req) # None
    /\ ~PlatformAvailable(PlatformName(req))
    /\ calls' = <<>>
    /\ response' = [status |-> 400,
                    body |-> [error |-> <<"not available", PlatformName(req)>>,
                              available_platforms |-> PLATFORMS]]

\* GET /api/v1/color: the platform is asked for its mentions
GetColorFetch(req) ==
    /\ KeyAccepted(API_KEY, req.key)
    /\ Limit(req) # None
    /\ PlatformAvailable(PlatformName(req))
    /\ \E outcome \in Outcomes :
          /\ calls' = <<[platform |-> PlatformName(req), limit |-> Limit(req),
                         outcome |-> outcome]>>
          /\ response' = ColorResponse(outcome, PlatformName(req))

get_color ==
    /\ request = NoRequest
    /\ \E req \in ColorRequests :
          /\ request' = req
          /\ \/ GetColorUnauthorized(req)
             \/ GetColorBadLimit(req)
             \/ GetColorNoPlatform(req)
             \/ GetColorFetch(req)
    /\ UNCHANGED <<parser_vars, config_vars, platform_vars, worker_vars>>

\* GET /api/v1/mentions: rejected by require_api_key
GetMentionsUnauthorized(req) ==
    /\ ~KeyAccepted(API_KEY, req.key)
    /\ calls' = <<>>
    /\ response' = Unauthorized

\* GET /api/v1/mentions: int() raises on the limit parameter, outside the try
GetMentionsBadLimit(req) ==
    /\ KeyAccepted(API_KEY, req.key)
    /\ Limit(req) = None
    /\ calls' = <<>>
    /\ response' = [status |-> 500, body |-> [unhandled |-> "ValueError"]]

\* GET /api/v1/mentions: the platform is not available
GetMentionsNoPlatform(req) ==
    /\ KeyAccepted(API_KEY, req.key)
    /\ Limit(req) # None
    /\ ~PlatformAvailable(PlatformName(req))
    /\ calls' = <<>>
    /\ response' = [status |-> 400,
                    body |-> [error |-> <<"not available", PlatformName(req)>>,
                              available_platforms |-> PLATFORMS]]

\* GET /api/v1/mentions: the platform is asked for its mentions
GetMentionsFetch(req) ==
    /\ KeyAccepted(API_KEY, req.key)
    /\ Limit(req) # None
    /\ PlatformAvailable(PlatformName(req))
    /\ \E outcome \in Outcomes :
          /\ calls' = <<[platform |-> PlatformName(req), limit |-> Limit(req),
                         outcome |-> outcome]>>
          /\ response' = MentionsResponse(outcome, PlatformName(req))

get_mentions ==
    /\ request = NoRequest
    /\ \E req \in MentionsRequests :
          /\ request' = req
          /\ \/ GetMentionsUnauthorized(req)
             \/ GetMentionsBadLimit(req)
             \/ GetMentionsNoPlatform(req)
             \/ GetMentionsFetch(req)
    /\ UNCHANGED <<parser_vars, config_vars, platform_vars, worker_vars>>

\* GET /api/v1/platforms
list_platforms ==
    /\ request = NoRequest
    /\ \E req \in PlatformsRequests :
          /\ request' = req
          /\ calls' = <<>>
          /\ response' =
                IF ~KeyAccepted(API_KEY, req.key) THEN Unauthorized
                ELSE [status |-> 200,
                      body |-> [available_platforms |-> PLATFORMS,
                                active_platform |-> ACTIVE_PLATFORM]]
    /\ UNCHANGED <<parser_vars, config_vars, platform_vars, worker_vars>>

\* the response is sent; the server waits for the next request
Respond ==
    /\ request # NoRequest
    /\ request' = NoRequest
    /\ calls' = <<>>
    /\ response' = NoResponse
    /\ UNCHANGED <<parser_vars, config_vars, platform_vars, worker_vars>>

Next == get_color \/ get_mentions \/ list_platforms \/ Respond

Spec == Init /\ [][Next]_vars

---------------------------------------------------------------------------
(* The platform objects in use: initialize and get_latest_mentions called  *)
(* on a MastodonPlatform and a BlueskyPlatform object, and                 *)
(* _initialize_platforms, which creates and initializes both from the      *)
(* configuration file.                                                     *)

\* Bound: longest notification list a remote API returns.
MaxNotifications == 3

\* a configuration value: the key is missing, empty, or set
ConfigValues == {None, {""}, {"configured"}}

MastodonConfigs == [instance_url : ConfigValues, access_token : ConfigValues]

BlueskyConfigs ==
    [identifier : ConfigValues, password : ConfigValues, debug : {<<"f", "a", "l", "s", "e">>, <<"T", "r", "u", "e">>}]

\* config.ini: each platform section is absent (None) or gives the dict that
\* _initialize_platforms builds from it
ConfigFiles ==
    [mastodon : {None} \cup {{c} : c \in MastodonConfigs},
     bluesky : {None} \cup {{c} : c \in BlueskyConfigs}]

MastodonInitializeAnswers == {"ok", "Mastodon raises", "account_verify_credentials raises"}

BlueskyInitializeAnswers == {"ok", "login raises"}

\* the limit arguments of get_latest_mentions
LimitValues == {0, 1, 10}

Rkeys == <<"1", "2", "3", "4">>

\* Mastodon notifications at position i of a listing: a mention; a
\* favourite; a mention without a status; a mention whose status is null; a
\* notification without a type
MastodonNotifications(i) ==
    LET status == [content |-> <<"<", "p", ">", "r", "e", "d", "<", "/", "p", ">">>, id |-> {Rkeys[i]}, created_at |-> {"t" \o Rkeys[i]},
                   account |-> "user" \o Rkeys[i]]
    IN { [type |-> {"mention"}, status |-> {status}],
         [type |-> {"favourite"}, status |-> {status}],
         [type |-> {"mention"}, status |-> None],
         [type |-> {"mention"}, status |-> {JsonNull}],
         [type |-> None, status |-> {status}] }

\* the URI of the post that notification i is about, of the post it replies
\* to, and of a like record
PostUri(i) == <<"a", "t", ":", "/", "/", "a", "/", "a", "p", "p", ".", "b", "s", "k", "y", ".", "f", "e", "e", "d", ".", "p", "o", "s", "t", "/">> \o <<Rkeys[i]>>

ParentUri(i) == <<"a", "t", ":", "/", "/", "b", "/", "a", "p", "p", ".", "b", "s", "k", "y", ".", "f", "e", "e", "d", ".", "p", "o", "s", "t", "/">> \o <<Rkeys[i]>>

LikeUri(i) == <<"a", "t", ":", "/", "/", "a", "/", "a", "p", "p", ".", "b", "s", "k", "y", ".", "f", "e", "e", "d", ".", "l", "i", "k", "e", "/">> \o <<Rkeys[i]>>

\* Bluesky notifications at position i of a listing and what get_posts
\* answers for each: a mention with its text embedded; a reply whose text
\* has to be fetched; a like; a mention whose post fetch raises; a mention
\* whose post is gone; a mention whose URI names no post; a reply with a
\* subject
BlueskyNotifications(i) ==
    LET base == [reason |-> {"mention"}, subject |-> None, uri |-> PostUri(i),
                 text |-> <<>>, author |-> "user" \o Rkeys[i],
                 indexed_at |-> "t" \o Rkeys[i],
                 posts |-> [kind |-> "ok", posts |-> <<>>]]
        found == [kind |-> "ok", posts |-> <<[text |-> <<"b", "l", "u", "e">>, author |-> "poster" \o Rkeys[i]]>>]
    IN { [base EXCEPT !.text = <<"p", "u", "r", "p", "l", "e">>],
         [base EXCEPT !.reason = {"reply"}, !.posts = found],
         [base EXCEPT !.reason = {"like"}, !.uri = LikeUri(i), !.subject = {PostUri(i)},
                      !.posts = found],
         [base EXCEPT !.posts = [kind |-> "raise"]],
         base,
         [base EXCEPT !.uri = LikeUri(i), !.text = <<"r", "e", "d">>],
         [base EXCEPT !.reason = {"reply"}, !.subject = {ParentUri(i)}, !.text = <<"l", "i", "m", "e">>] }

RECURSIVE MastodonListings(_)
MastodonListings(n) ==
    IF n = 0 THEN {<<>>}
    ELSE {Append(l, x) : l \in MastodonListings(n - 1), x \in MastodonNotifications(n)}

RECURSIVE BlueskyListings(_)
BlueskyListings(n) ==
    IF n = 0 THEN {<<>>}
    ELSE {Append(l, x) : l \in BlueskyListings(n - 1), x \in BlueskyNotifications(n)}

\* what client.notifications does: it answers with a listing or raises
MastodonAnswers ==
    {[kind |-> "ok", notifications |-> l] :
        l \in UNION {MastodonListings(n) : n \in 0..MaxNotifications}}
        \cup {[kind |-> "raise"]}

\* what list_notifications does: it answers with a listing or raises
BlueskyAnswers ==
    {[kind |-> "ok", notifications |-> l] :
        l \in UNION {BlueskyListings(n) : n \in 0..MaxNotifications}}
        \cup {[kind |-> "raise"]}

\* _initialize_platforms(app, config), given what the remote APIs do
InitializePlatformsFrom(file, answers) ==
    LET m == IF file.mastodon = None
             THEN [self |-> MastodonPlatform, ret |-> None, remote |-> <<>>]
             ELSE LET done == MastodonPlatform_initialize(
                                  MastodonPlatform, CHOOSE c \in file.mastodon : TRUE,
                                  answers.mastodon)
                  IN [self |-> done.self, ret |-> {done.ret}, remote |-> done.remote]
        b == IF file.bluesky = None
             THEN [self |-> BlueskyPlatform, ret |-> None, remote |-> <<>>]
             ELSE LET done == BlueskyPlatform_initialize(
                                  BlueskyPlatform, CHOOSE c \in file.bluesky : TRUE,
                                  answers.bluesky)
                  IN [self |-> done.self, ret |-> {done.ret}, remote |-> done.remote]
        initialized == {p \in {"mastodon"} : m.ret = {TRUE}}
                           \cup {p \in {"bluesky"} : b.ret = {TRUE}}
    IN [mastodon |-> m.self, bluesky |-> b.self,
        initialize_ret |-> [mastodon |-> m.ret, bluesky |-> b.ret],
        PLATFORMS |-> InitializePlatforms(initialized)[1],
        ACTIVE_PLATFORM |-> InitializePlatforms(initialized)[2],
        remote |-> m.remote \o b.remote]

InitPlatform ==
    /\ text = <<>>
    /\ set_order = SourceOrder
    /\ op = "idle"
    /\ ret = None
    /\ held = None
    /\ NoServer

\* create_app without an override: _initialize_platforms on new objects
CreateApp ==
    /\ op = "idle"
    /\ initialize_ret = [mastodon |-> None, bluesky |-> None]
    /\ \E file \in ConfigFiles :
       \E answers \in [mastodon : MastodonInitializeAnswers, bluesky : BlueskyInitializeAnswers] :
          LET done == InitializePlatformsFrom(file, answers)
          IN /\ mastodon' = done.mastodon
             /\ bluesky' = done.bluesky
             /\ initialize_ret' = done.initialize_ret
             /\ PLATFORMS' = done.PLATFORMS
             /\ ACTIVE_PLATFORM' = done.ACTIVE_PLATFORM
             /\ remote' = done.remote
             /\ args' = {[file |-> file, answers |-> answers]}
    /\ op' = "_initialize_platforms"
    /\ ret' = None
    /\ UNCHANGED <<text, set_order, held, API_KEY, http_vars, worker_vars>>

\* initialize called on a new MastodonPlatform object
MastodonInitialize ==
    /\ op = "idle"
    /\ initialize_ret.mastodon = None
    /\ \E cfg \in MastodonConfigs, answer \in MastodonInitializeAnswers :
          LET done == MastodonPlatform_initialize(mastodon, cfg, answer)
          IN /\ mastodon' = done.self
             /\ initialize_ret' = [initialize_ret EXCEPT !.mastodon = {done.ret}]
             /\ ret' = {done.ret}
             /\ remote' = done.remote
             /\ args' = {[config |-> cfg, answer |-> answer]}
    /\ op' = "MastodonPlatform.initialize"
    /\ UNCHANGED <<text, set_order, held, config_vars, http_vars, worker_vars, bluesky>>

\* initialize called on a new BlueskyPlatform object
BlueskyInitialize ==
    /\ op = "idle"
    /\ initialize_ret.bluesky = None
    /\ \E cfg \in BlueskyConfigs, answer \in BlueskyInitializeAnswers :
          LET done == BlueskyPlatform_initialize(bluesky, cfg, answer)
          IN /\ bluesky' = done.self
             /\ initialize_ret' = [initialize_ret EXCEPT !.bluesky = {done.ret}]
             /\ ret' = {done.ret}
             /\ remote' = done.remote
             /\ args' = {[config |-> cfg, answer |-> answer]}
    /\ op' = "BlueskyPlatform.initialize"
    /\ UNCHANGED <<text, set_order, held, config_vars, http_vars, worker_vars, mastodon>>

\* get_latest_mentions called on the MastodonPlatform object
MastodonGetLatestMentions ==
    /\ op = "idle"
    /\ \E limit \in LimitValues, answer \in MastodonAnswers :
          LET done == MastodonPlatform_get_latest_mentions(mastodon, limit, answer)
          IN /\ ret' = done.ret
             /\ remote' = done.remote
             /\ args' = {[limit |-> limit, answer |-> answer]}
    /\ op' = "MastodonPlatform.get_latest_mentions"
    /\ UNCHANGED <<text, set_order, held, config_vars, http_vars, worker_vars, mastodon,
                   bluesky, initialize_ret>>

\* get_latest_mentions called on the BlueskyPlatform object
BlueskyGetLatestMentions ==
    /\ op = "idle"
    /\ \E limit \in LimitValues, answer \in BlueskyAnswers :
          LET done == BlueskyPlatform_get_latest_mentions(bluesky, limit, answer)
          IN /\ ret' = done.ret
             /\ remote' = done.remote
             /\ args' = {[limit |-> limit, answer |-> answer]}
    /\ op' = "BlueskyPlatform.get_latest_mentions"
    /\ UNCHANGED <<text, set_order, held, config_vars, http_vars, worker_vars, mastodon,
                   bluesky, initialize_ret>>

\* the caller has its value; the objects stay as they are
Return ==
    /\ op # "idle"
    /\ op' = "idle"
    /\ ret' = None
    /\ args' = None
    /\ remote' = <<>>
    /\ UNCHANGED <<text, set_order, held, config_vars, http_vars, worker_vars, mastodon,
                   bluesky, initialize_ret>>

NextPlatform ==
    \/ CreateApp
    \/ MastodonInitialize
    \/ BlueskyInitialize
    \/ MastodonGetLatestMentions
    \/ BlueskyGetLatestMentions
    \/ Return

SpecPlatform == InitPlatform /\ [][NextPlatform]_vars

---------------------------------------------------------------------------
(* The markup stripping of the handlers applied to any text, and applied   *)
(* again to its own result.                                                *)

\* Bound: longest text that is stripped.
MaxMarkupLen == 5

MarkupChars == {"<", ">", "a"}

RECURSIVE TextsOfLen(_)
TextsOfLen(n) ==
    IF n = 0 THEN {<<>>}
    ELSE {Append(t, c) : t \in TextsOfLen(n - 1), c \in MarkupChars}

MarkupTexts == UNION {TextsOfLen(n) : n \in 0..MaxMarkupLen}

InitStrip ==
    /\ text \in MarkupTexts
    /\ set_order = SourceOrder
    /\ op = "idle"
    /\ ret = None
    /\ held = None
    /\ NoServer

\* text = re.sub(r"<[^>]+>", "", text) on the text of a mention
Strip ==
    /\ op = "idle"
    /\ op' = "strip"
    /\ ret' = StripTags(text)
    /\ UNCHANGED <<text, set_order, held, config_vars, http_vars, platform_vars, worker_vars>>

\* the same substitution on the text it produced
StripAgain ==
    /\ op = "strip"
    /\ op' = "strip_again"
    /\ text' = ret
    /\ ret' = StripTags(ret)
    /\ UNCHANGED <<set_order, held, config_vars, http_vars, platform_vars, worker_vars>>

NextStrip == Strip \/ StripAgain

SpecStrip == InitStrip /\ [][NextStrip]_vars

---------------------------------------------------------------------------
(* Requests handled concurrently: the server runs the handlers of several  *)
(* requests at once, each in a thread of its own.  A handler reads the     *)
(* app configuration and the platform; everything it assigns is a local    *)
(* variable of its own call.  A step is what a handler does between two    *)
(* reads of something the threads share.                                   *)

\* the threads that handle requests
Workers == {"w1", "w2"}

NoOutcome == [kind |-> "none"]

\* a thread that handles no request
IdleFrame ==
    [pc |-> "idle", request |-> NoRequest, platform_name |-> None, limit |-> None,
     outcome |-> NoOutcome, response |-> NoResponse]

\* Mutant of Frames: platform_name is a module-level name that all running
\* handlers share.
Frames_Shared(frames, w, frame) ==
    [v \in DOMAIN frames |->
        IF v = w THEN frame
        ELSE IF frames[v].pc \in {"fetch", "scan"} /\ frame.pc = "fetch"
        THEN [frames[v] EXCEPT !.platform_name = frame.platform_name]
        ELSE frames[v]]

\* thread w assigns its local variables: the frames of the other threads
\* are not touched
Frames(frames, w, frame) == [frames EXCEPT ![w] = frame]

ConcurrentRequests ==
    [endpoint : {"/api/v1/color", "/api/v1/mentions"}, key : {None, {<<"s", "e", "c", "r", "e", "t">>}},
     platform : {None, {"bluesky"}}, limit : {None, {<<"a", "b", "c">>}}]
        \cup [endpoint : {"/api/v1/platforms"}, key : {None, {<<"s", "e", "c", "r", "e", "t">>}},
              platform : {None}, limit : {None}]

\* what get_latest_mentions of a platform does while the requests run
FeedOutcomes ==
    { [kind |-> "raise", error |-> "Connection failed"],
      [kind |-> "ok",
       mentions |-> <<[text |-> <<"h", "e", "l", "l", "o">>, id |-> "id1", account |-> "user1",
                       created_at |-> "t1"],
                      [text |-> <<"<", "p", ">", "m", "a", "k", "e", " ", "i", "t", " ", "<", "b", ">", "p", "u", "r", "p", "l", "e", "<", "/", "b", ">", "<", "/", "p", ">">>, id |-> "id2",
                       account |-> "user2", created_at |-> "t2"]>>],
      [kind |-> "ok",
       mentions |-> <<[text |-> <<"w", "i", "p", "e", "_", "u", "p", " ", "y", "e", "l", "l", "o", "w", " ", "f", "a", "d", "e">>, id |-> "id1", account |-> "user1",
                       created_at |-> "t1"]>>] }

Feeds ==
    {f \in [mastodon : FeedOutcomes, bluesky : FeedOutcomes] : f.mastodon # f.bluesky}

InitConcurrent ==
    /\ text = <<>>
    /\ op = "idle"
    /\ ret = None
    /\ held = None
    /\ set_order = SourceOrder
    /\ API_KEY \in {None, {<<"s", "e", "c", "r", "e", "t">>}}
    /\ \E initialized \in SUBSET {"mastodon", "bluesky"} :
          /\ PLATFORMS = InitializePlatforms(initialized)[1]
          /\ ACTIVE_PLATFORM = InitializePlatforms(initialized)[2]
    /\ request = NoRequest
    /\ calls = <<>>
    /\ response = NoResponse
    /\ mastodon = MastodonPlatform
    /\ bluesky = BlueskyPlatform
    /\ initialize_ret = [mastodon |-> None, bluesky |-> None]
    /\ args = None
    /\ remote = <<>>
    /\ threads = [w \in Workers |-> IdleFrame]
    /\ feed \in Feeds

\* a request arrives and thread w takes it
Receive(w) ==
    /\ threads[w].pc = "idle"
    /\ \E req \in ConcurrentRequests :
          threads' = Frames(threads, w, [IdleFrame EXCEPT !.pc = "require_api_key",
                                                          !.request = req])

\* require_api_key in thread w
Authenticate(w) ==
    /\ threads[w].pc = "require_api_key"
    /\ threads' = Frames(threads, w,
          IF KeyAccepted(API_KEY, threads[w].request.key)
          THEN [threads[w] EXCEPT !.pc = "handler"]
          ELSE [threads[w] EXCEPT !.pc = "done", !.response = Unauthorized])

\* the handler in thread w, up to the call of the platform
SelectPlatform(w) ==
    LET req == threads[w].request
    IN /\ threads[w].pc = "handler"
       /\ threads' = Frames(threads, w,
             IF req.endpoint = "/api/v1/platforms"
             THEN [threads[w] EXCEPT
                      !.pc = "done",
                      !.response = [status |-> 200,
                                    body |-> [available_platforms |-> PLATFORMS,
                                              active_platform |-> ACTIVE_PLATFORM]]]
             ELSE IF Limit(req) = None
             THEN [threads[w] EXCEPT
                      !.pc = "done",
                      !.response = [status |-> 500, body |-> [unhandled |-> "ValueError"]]]
             ELSE IF ~PlatformAvailable(PlatformName(req))
             THEN [threads[w] EXCEPT
                      !.pc = "done",
                      !.response = [status |-> 400,
                                    body |-> [error |-> <<"not available", PlatformName(req)>>,
                                              available_platforms |-> PLATFORMS]]]
             ELSE [threads[w] EXCEPT !.pc = "fetch", !.platform_name = PlatformName(req),
                                     !.limit = Limit(req)])

\* platform.get_latest_mentions(limit=limit) in thread w
Fetch(w) ==
    /\ threads[w].pc = "fetch"
    /\ threads' = Frames(threads, w,
          [threads[w] EXCEPT
              !.pc = "scan",
              !.outcome = feed[CHOOSE p \in threads[w].platform_name : TRUE]])

\* the rest of the try block in thread w
Scan(w) ==
    /\ threads[w].pc = "scan"
    /\ threads' = Frames(threads, w,
          [threads[w] EXCEPT
              !.pc = "done",
              !.response =
                  IF threads[w].request.endpoint = "/api/v1/color"
                  THEN ColorResponse(threads[w].outcome, threads[w].platform_name)
                  ELSE MentionsResponse(threads[w].outcome, threads[w].platform_name)])

\* thread w has sent its response
Send(w) ==
    /\ threads[w].pc = "done"
    /\ threads' = Frames(threads, w, IdleFrame)

NextConcurrent ==
    /\ \E w \in Workers :
          \/ Receive(w)
          \/ Authenticate(w)
          \/ SelectPlatform(w)
          \/ Fetch(w)
          \/ Scan(w)
          \/ Send(w)
    /\ UNCHANGED <<parser_vars, config_vars, http_vars, platform_vars, feed>>

SpecConcurrent == InitConcurrent /\ [][NextConcurrent]_vars

---------------------------------------------------------------------------
(* What it means for a text to contain a colour or an effect, stated on    *)
(* the characters of the text and independently of the matchers above.     *)

HexDigitSet ==
    {"0", "1", "2", "3", "4", "5", "6", "7", "8", "9",
     "a", "b", "c", "d", "e", "f", "A", "B", "C", "D", "E", "F"}

DigitSet == {"0", "1", "2", "3", "4", "5", "6", "7", "8", "9"}

\* a "#" and six hexadecimal digits stand at positions i .. i+6 of s
HexPatternAt(s, i) ==
    /\ i >= 1 /\ i + 6 <= Len(s)
    /\ s[i] = "#"
    /\ \A k \in (i + 1)..(i + 6) : s[k] \in HexDigitSet

HasHexPattern(s) == \E i \in 1..Len(s) : HexPatternAt(s, i)

AllSpace(s, a, b) == \A k \in a..b : s[k] \in {" ", "\t", "\n"}

AllDigits(s, a, b) == \A k \in a..b : s[k] \in DigitSet

\* positions a..b of s hold one decimal integer with optional whitespace around
PaddedInt(s, a, b) ==
    \E x \in a..b : \E y \in x..b :
        AllSpace(s, a, x - 1) /\ AllDigits(s, x, y) /\ AllSpace(s, y + 1, b)

IntIn(s, a, b) == ParseInt(SelectSeq(SubSeq(s, a, b), LAMBDA c : c \in DigitSet), 10)

\* s contains "rgb" in any letter case, then (when gap is TRUE) optional
\* whitespace, "(", three comma-separated integers and ")", and the three
\* integers are those of want when want is not None
RgbPatternWith(s, gap, want) ==
    \E i \in 1..(Len(s) - 2) :
        /\ LowerChar(s[i]) = "r" /\ LowerChar(s[i + 1]) = "g" /\ LowerChar(s[i + 2]) = "b"
        /\ \E lp \in (i + 3)..Len(s) :
            /\ s[lp] = "("
            /\ gap \/ lp = i + 3
            /\ AllSpace(s, i + 3, lp - 1)
            /\ \E c1 \in (lp + 1)..Len(s) :
                /\ s[c1] = ","
                /\ PaddedInt(s, lp + 1, c1 - 1)
                /\ \E c2 \in (c1 + 1)..Len(s) :
                    /\ s[c2] = ","
                    /\ PaddedInt(s, c1 + 1, c2 - 1)
                    /\ \E rp \in (c2 + 1)..Len(s) :
                        /\ s[rp] = ")"
                        /\ PaddedInt(s, c2 + 1, rp - 1)
                        /\ \/ want = None
                           \/ want = {<<IntIn(s, lp + 1, c1 - 1), IntIn(s, c1 + 1, c2 - 1),
                                        IntIn(s, c2 + 1, rp - 1)>>}

HasRgbPattern(s) == RgbPatternWith(s, TRUE, None)

\* the same with "(" directly after "rgb"
HasRgbPatternNoGap(s) == RgbPatternWith(s, FALSE, None)

RECURSIVE Folded(_)
\* s with its capital letters replaced by small ones
Folded(s) ==
    IF Len(s) = 0 THEN s
    ELSE Append(Folded(SubSeq(s, 1, Len(s) - 1)), LowerChar(s[Len(s)]))

\* word stands at positions i .. i+Len(word)-1 of s
StandsAt(word, s, i) == \A k \in 1..Len(word) : s[i + k - 1] = word[k]

\* word occurs in s, the letter case of s ignored
OccursCI(word, s) ==
    LET ls == Folded(s)
    IN \E i \in 1..(Len(s) - Len(word) + 1) : StandsAt(word, ls, i)

NamesIn(s) ==
    LET ls == Folded(s)
    IN {n \in PaletteNames : \E i \in 1..(Len(s) - Len(n) + 1) : StandsAt(n, ls, i)}

RECURSIVE SpaceForm(_)
\* e with every "_" replaced by a space
SpaceForm(e) ==
    IF Len(e) = 0 THEN e
    ELSE Append(SpaceForm(SubSeq(e, 1, Len(e) - 1)),
                IF e[Len(e)] = "_" THEN " " ELSE e[Len(e)])

\* the keywords that occur in s in one of their two surface forms
EffectsIn(s) ==
    LET ls == Folded(s)
    IN {e \in EFFECTS :
          LET spaced == SpaceForm(e)
          IN \E i \in 1..(Len(s) - Len(e) + 1) :
                StandsAt(e, ls, i) \/ StandsAt(spaced, ls, i)}

Longest(S) == {x \in S : \A y \in S : Len(y) <= Len(x)}

\* the rgb triple a "#rrggbb" string encodes
DecodeHex(h) ==
    <<ParseInt(SubSeq(h, 2, 3), 16), ParseInt(SubSeq(h, 4, 5), 16),
      ParseInt(SubSeq(h, 6, 7), 16)>>

IsLowerHex7(h) ==
    /\ Len(h) = 7
    /\ h[1] = "#"
    /\ \A k \in 2..7 : h[k] \in HexDigitSet /\ LowerChar(h[k]) = h[k]

Clamp8(v) == IF v > 255 THEN 255 ELSE IF v < 0 THEN 0 ELSE v

---------------------------------------------------------------------------
(* Properties of extract_color (under SpecColor). *)

\* C2: extract_color gives hex priority over rgb(...) and rgb(...) priority
\* over names: with a hex pattern in the text the descriptor is that of a
\* hex pattern of the text, whatever else the text holds; without one but
\* with an rgb(...) pattern it is that of an rgb(...) pattern of the text;
\* and a palette name is the result only when the text has neither.
C2_Priority ==
    op = "extract_color" =>
        /\ HasHexPattern(text) =>
              \E d \in ret : \E i \in 1..Len(text) :
                  /\ HexPatternAt(text, i)
                  /\ d.name = Lower(SubSeq(text, i, i + 6))
                  /\ d.hex = d.name
                  /\ d.rgb = DecodeHex(d.name)
        /\ (~HasHexPattern(text) /\ HasRgbPattern(text)) =>
              \E d \in ret :
                  /\ RgbPatternWith(text, TRUE, {d.rgb})
                  /\ SubSeq(d.name, 1, 4) = <<"r", "g", "b", "(">>
        /\ \A d \in ret :
              d.name \in PaletteNames => ~HasHexPattern(text) /\ ~HasRgbPattern(text)

\* C2 witness: a text with a hex pattern, an rgb(...) pattern and a palette
\* name, for which extract_color returned the hex colour.
C2_Witness ==
    /\ op = "extract_color"
    /\ HasHexPattern(text) /\ HasRgbPattern(text) /\ NamesIn(text) # {}
    /\ \E d \in ret : d.name[1] = "#"

\* C3: with no hex and no rgb(...) pattern in the text, extract_color and
\* find_color_name return a palette name of the text that is as long as the
\* longest palette name of the text, wherever the names stand.
C3_LongestName ==
    /\ (op = "extract_color" /\ ~HasHexPattern(text) /\ ~HasRgbPattern(text)
            /\ NamesIn(text) # {}) =>
          \E d \in ret : d.name \in Longest(NamesIn(text))
    /\ (op = "find_color_name" /\ NamesIn(text) # {}) =>
          \E r \in ret : r[1] \in Longest(NamesIn(text))

\* C3 witness: the text "green spring", the shorter name first, gave "spring".
C3_Witness ==
    /\ op = "extract_color"
    /\ text = <<"g", "r", "e", "e", "n", " ", "s", "p", "r", "i", "n", "g">>
    /\ \E d \in ret : d.name = <<"s", "p", "r", "i", "n", "g">>

\* C7 (as claimed): every descriptor returned by extract_color or
\* get_default_color has its three rgb components in 0..255.
C7_RgbInByteRange ==
    op \in {"extract_color", "get_default_color"} =>
        \A d \in ret : \A i \in 1..3 : d.rgb[i] \in 0..255

\* C8 (as claimed): the hex field of every descriptor returned by
\* extract_color is "#" and six lowercase hex digits that encode the rgb
\* field, each component clamped to 8 bits.
C8_HexIsSixDigits ==
    op = "extract_color" =>
        \A d \in ret :
            /\ IsLowerHex7(d.hex)
            /\ DecodeHex(d.hex) = <<Clamp8(d.rgb[1]), Clamp8(d.rgb[2]), Clamp8(d.rgb[3])>>

\* C9: for every palette entry (name, rgb), extract_color(name) returns the
\* descriptor with that name and that rgb, and its hex decodes to that rgb.
C9_PaletteRoundTrip ==
    \A i \in 1..Len(COLOR_MAP) :
        (op = "extract_color" /\ text = COLOR_MAP[i][1]) =>
            \E d \in ret :
                /\ d.name = COLOR_MAP[i][1]
                /\ d.rgb = COLOR_MAP[i][2]
                /\ IsLowerHex7(d.hex)
                /\ DecodeHex(d.hex) = COLOR_MAP[i][2]

\* C9 witness: extract_color ran on the palette name "chartreuse".
C9_Witness ==
    /\ op = "extract_color"
    /\ text = <<"c", "h", "a", "r", "t", "r", "e", "u", "s", "e">>
    /\ \E d \in ret : d.rgb = <<127, 255, 0>> /\ d.hex = <<"#", "7", "f", "f", "f", "0", "0">>

\* C10 (as claimed): a text with no hex pattern, no "rgb" directly followed
\* by "(", three comma-separated integers and ")", and no palette name makes
\* extract_color return None.
C10_NoneWithoutPattern_Claimed ==
    (op = "extract_color" /\ ~HasHexPattern(text) /\ ~HasRgbPatternNoGap(text)
        /\ NamesIn(text) = {}) => ret = None

\* C10 (amended): a text with no hex pattern, no "rgb" followed after
\* optional whitespace by "(", three comma-separated integers and ")", and
\* no palette name makes extract_color return None.
C10_NoneWithoutPattern ==
    (op = "extract_color" /\ ~HasHexPattern(text) /\ ~HasRgbPattern(text)
        /\ NamesIn(text) = {}) => ret = None

\* C10 witness: extract_color returned None for a text that comes close to
\* a syntax, "rgb(" with two integers only.
C10_Witness ==
    /\ op = "extract_color"
    /\ ret = None
    /\ text = <<"r", "g", "b", "(", "1", ",", "2", ")">>
    /\ ~HasHexPattern(text) /\ ~HasRgbPattern(text) /\ NamesIn(text) = {}

---------------------------------------------------------------------------
(* Properties of extract_effect (under SpecEffect). *)

\* C4: extract_effect returns a keyword that occurs in the text, in either
\* surface form, and that is as long as the longest keyword occurring in
\* it; it returns None only when no keyword occurs.
C4_LongestEffect ==
    op = "extract_effect" =>
        LET found == EffectsIn(text)
        IN /\ \A e \in ret : e \in found /\ \A k \in found : Len(k) <= Len(e)
           /\ ret = None => found = {}

\* C4 witness: the text holds keywords of different lengths and the longest
\* of them was returned.
C4_Witness ==
    /\ op = "extract_effect"
    /\ text = <<"f", "a", "d", "e", "w", "i", "p", "e", "_", "d", "o", "w", "n">>
    /\ ret = {<<"w", "i", "p", "e", "_", "d", "o", "w", "n">>}

\* C5: a text that holds exactly one of the 16 keywords, with underscores
\* or with spaces in their place, makes extract_effect return that keyword
\* in its underscore form.
C5_CanonicalForm ==
    op = "extract_effect" =>
        LET found == EffectsIn(text)
        IN /\ \A k \in EFFECTS : found = {k} => ret = {k}
           /\ ret \subseteq EFFECTS

\* C5 witness: the text holds one keyword, only in its space form, in
\* capitals, and the underscore form was returned.
C5_Witness ==
    /\ op = "extract_effect"
    /\ text = <<"x", "C", "H", "A", "S", "E", " ", "S", "P", "I", "R", "A", "L", " ">>
    /\ ret = {<<"c", "h", "a", "s", "e", "_", "s", "p", "i", "r", "a", "l">>}

\* C6 (as claimed): the result of extract_effect is fixed by the text
\* alone: whatever order this process iterates the EFFECTS set in, the
\* result is the one a process iterating it in the order of the source
\* listing returns for the same text.
C6_EffectFixedByText ==
    op = "extract_effect" => ret = extract_effect(text, SourceOrder)

---------------------------------------------------------------------------
(* Properties of the /api/v1/color handler (under Spec). *)

\* for every mention text, the colour it states: extract_color of the text
\* without its tags
StatedColors == {<<t, extract_color(StripTags(t))>> : t \in MentionTexts}

\* the colour a mention states
ColorOfMention(m) == (CHOOSE p \in StatedColors : p[1] = m.text)[2]

\* the mentions the platform returned for the request being answered
Fetched == calls[1].outcome.mentions

\* C1: when the platform returns mentions, GET /api/v1/color answers with
\* the colour and the record of the first mention, in the order returned,
\* whose text without tags has a colour: the mentions before it have none
\* and the colours of the mentions after it are not used.
C1_FirstColorWins ==
    (request.endpoint = "/api/v1/color" /\ calls # <<>> /\ calls[1].outcome.kind = "ok") =>
        \A j \in 1..Len(Fetched) :
            (/\ ColorOfMention(Fetched[j]) # None
             /\ \A i \in 1..(j - 1) : ColorOfMention(Fetched[i]) = None) =>
                /\ response.status = 200
                /\ response.body.color = ColorOfMention(Fetched[j])
                /\ response.body.mention.id = Fetched[j].id

\* C1 witness: of three mentions the first has no colour, the second and
\* the third have different colours, and the answer is the second.
C1_Witness ==
    /\ request.endpoint = "/api/v1/color"
    /\ calls # <<>> /\ calls[1].outcome.kind = "ok"
    /\ Len(Fetched) = 3
    /\ ColorOfMention(Fetched[1]) = None
    /\ ColorOfMention(Fetched[2]) # None
    /\ ColorOfMention(Fetched[3]) # None
    /\ ColorOfMention(Fetched[3]) # ColorOfMention(Fetched[2])
    /\ response.status = 200
    /\ response.body.color = ColorOfMention(Fetched[2])
    /\ response.body.mention.id = "id2"

---------------------------------------------------------------------------
\* C11 (as claimed): extract_color and extract_effect never raise: for None
\* and for the empty string both return None, and for every string each
\* returns None or a result (a descriptor, an effect keyword).
C11_NeverRaises ==
    /\ op = "extract_color" =>
          /\ ret # {Raise(ValueError)}
          /\ Falsy(text) => ret = None
    /\ op = "extract_effect" =>
          /\ ret \subseteq EFFECTS
          /\ Falsy(text) => ret = None

---------------------------------------------------------------------------
\* C12: every call of get_default_color returns name "white", rgb
\* (255, 255, 255) and hex "#ffffff", whatever calls came before and
\* whatever a caller wrote to a dict returned by an earlier call.
C12_DefaultIsWhite ==
    op = "get_default_color" =>
        ret = {[name |-> <<"w", "h", "i", "t", "e">>, rgb |-> <<255, 255, 255>>, hex |-> <<"#", "f", "f", "f", "f", "f", "f">>]}

\* C12 witness: a caller wrote to the dict it got, and get_default_color
\* was called again and returned something else than that dict.
C12_Witness ==
    /\ op = "get_default_color"
    /\ Truthy(held)
    /\ ret # held

---------------------------------------------------------------------------
\* the platform a request selects: its platform parameter, else the active one
Selected == IF request.platform # None THEN request.platform ELSE ACTIVE_PLATFORM

\* GET /api/v1/color got a list of mentions from the platform
ColorFetched ==
    /\ request.endpoint = "/api/v1/color"
    /\ calls # <<>>
    /\ calls[1].outcome.kind = "ok"

White == [name |-> <<"w", "h", "i", "t", "e">>, rgb |-> <<255, 255, 255>>, hex |-> <<"#", "f", "f", "f", "f", "f", "f">>]

\* C13: when the platform returns no mention, GET /api/v1/color answers 200
\* with the white default colour, effect null, the message "No mentions
\* found" and the platform name, and with no mention and no
\* mentions_checked field.
C13_NoMentions ==
    (ColorFetched /\ Fetched = <<>>) =>
        /\ response.status = 200
        /\ DOMAIN response.body = {"color", "effect", "message", "platform"}
        /\ response.body.color = {White}
        /\ response.body.effect = None
        /\ response.body.message = "No mentions found"
        /\ response.body.platform = Selected

\* C13 witness: the platform returned the empty list and the answer is the
\* "No mentions found" fallback.
C13_Witness ==
    /\ ColorFetched /\ Fetched = <<>>
    /\ response.status = 200
    /\ response.body.message = "No mentions found"
    /\ response.body.platform = {"bluesky"}

\* C14: when the platform returns mentions and none of them states a colour,
\* GET /api/v1/color answers 200 with the white default colour, effect null,
\* no mention field, a message other than "No mentions found", and
\* mentions_checked equal to the number of mentions returned; an answer
\* with mentions_checked is never given for an empty list.
C14_NoColorFound ==
    /\ (/\ ColorFetched /\ Fetched # <<>>
        /\ \A i \in 1..Len(Fetched) : ColorOfMention(Fetched[i]) = None) =>
            /\ response.status = 200
            /\ DOMAIN response.body =
                    {"color", "effect", "message", "platform", "mentions_checked"}
            /\ response.body.color = {White}
            /\ response.body.effect = None
            /\ response.body.message # "No mentions found"
            /\ response.body.mentions_checked = Len(Fetched)
    /\ (ColorFetched /\ "mentions_checked" \in DOMAIN response.body) => Fetched # <<>>

\* C14 witness: three mentions, none with a colour, one of them with an
\* effect keyword; the answer counts three mentions checked.
C14_Witness ==
    /\ ColorFetched /\ Len(Fetched) = 3
    /\ \E i \in 1..3 : extract_effect(StripTags(Fetched[i].text), set_order) # None
    /\ response.status = 200
    /\ response.body.color = {White}
    /\ "mentions_checked" \in DOMAIN response.body
    /\ response.body.mentions_checked = 3

---------------------------------------------------------------------------
(* Markup, stated on the characters of the text. *)

\* position k of s lies in a substring of the form "<", one or more
\* characters other than ">", ">"
InTag(s, k) ==
    \E i \in 1..k : \E e \in k..Len(s) :
        /\ s[i] = "<" /\ s[e] = ">" /\ e >= i + 2
        /\ \A m \in i..(e - 1) : s[m] # ">"

RECURSIVE OutsideTags(_, _)
\* the characters of s from position k on that lie in no such substring
OutsideTags(s, k) ==
    IF k > Len(s) THEN <<>>
    ELSE (IF InTag(s, k) THEN <<>> ELSE <<s[k]>>) \o OutsideTags(s, k + 1)

\* for every mention text: the text without markup, the colour and, for
\* either iteration order, the effect found in the text without markup
Unmarked ==
    {<<t, OutsideTags(t, 1), extract_color(OutsideTags(t, 1)),
       extract_effect(OutsideTags(t, 1), SourceOrder),
       extract_effect(OutsideTags(t, 1), Reverse(SourceOrder))>> : t \in MentionTexts}

UnmarkedOf(m) == CHOOSE p \in Unmarked : p[1] = m.text

UnmarkedText(m) == UnmarkedOf(m)[2]

UnmarkedColor(m) == UnmarkedOf(m)[3]

UnmarkedEffect(m) == IF set_order = SourceOrder THEN UnmarkedOf(m)[4] ELSE UnmarkedOf(m)[5]

\* the answer carries a mention
HasMention == ColorFetched /\ response.status = 200 /\ "mention" \in DOMAIN response.body

\* the position of the mention the answer carries
Winner == CHOOSE j \in 1..Len(Fetched) : Fetched[j].id = response.body.mention.id

\* C15: the handler matches on the text without markup and reports that
\* text: the mention in the answer carries its text with every substring
\* "<", non-">" characters, ">" removed, the colour is the one found in
\* that text, and every mention before it has no colour outside its tags.
C15_MarkupStripped ==
    HasMention =>
        /\ response.body.mention.text = UnmarkedText(Fetched[Winner])
        /\ response.body.color = UnmarkedColor(Fetched[Winner])
        /\ \A i \in 1..(Winner - 1) : UnmarkedColor(Fetched[i]) = None

\* C15 witness: the first mention names a colour only inside a tag and is
\* passed over; the second wins and is reported without its markup.
C15_Witness ==
    /\ HasMention
    /\ Winner = 2
    /\ Fetched[1].text = <<"<", "i", " ", "c", "l", "a", "s", "s", "=", "r", "e", "d", ">", "w", "i", "p", "e", "_", "l", "e", "f", "t", " ", "w", "i", "p", "e", "_", "d", "o", "w", "n", "<", "/", "i", ">", "<", ">">>
    /\ Fetched[2].text = <<"<", "p", ">", "m", "a", "k", "e", " ", "i", "t", " ", "<", "b", ">", "p", "u", "r", "p", "l", "e", "<", "/", "b", ">", "<", "/", "p", ">">>
    /\ response.body.mention.text = <<"m", "a", "k", "e", " ", "i", "t", " ", "p", "u", "r", "p", "l", "e">>
    /\ response.body.color # None

\* C16: the effect in the answer is the one found in the text, without
\* markup, of the mention that supplied the colour (null when that text
\* has none), whatever effects the other mentions name; with no colour in
\* any mention it is null.
C16_EffectOfWinner ==
    /\ HasMention => response.body.effect = UnmarkedEffect(Fetched[Winner])
    /\ (ColorFetched /\ response.status = 200 /\ ~HasMention) => response.body.effect = None

\* C16 witness: the winner names no effect, a mention before it and a
\* mention after it do, and the effect in the answer is null.
C16_Witness ==
    /\ HasMention
    /\ Len(Fetched) = 3 /\ Winner = 2
    /\ UnmarkedEffect(Fetched[1]) # None
    /\ UnmarkedEffect(Fetched[2]) = None
    /\ UnmarkedEffect(Fetched[3]) # None
    /\ response.body.effect = None

---------------------------------------------------------------------------
\* the position of the first mention that states a colour outside its tags
FirstWithColor ==
    CHOOSE j \in 1..Len(Fetched) :
        /\ UnmarkedColor(Fetched[j]) # None
        /\ \A i \in 1..(j - 1) : UnmarkedColor(Fetched[i]) = None

\* C17: in an answer of GET /api/v1/color that carries a mention, id,
\* account and created_at are those of the record of the winning mention as
\* the platform returned it, and platform is the name of the platform that
\* was asked.
C17_RecordPassedThrough ==
    HasMention =>
        /\ response.body.mention.id = Fetched[FirstWithColor].id
        /\ response.body.mention.account = Fetched[FirstWithColor].account
        /\ response.body.mention.created_at = Fetched[FirstWithColor].created_at
        /\ response.body.platform = calls[1].platform
        /\ response.body.platform = Selected

\* C17 witness: the second of three mentions wins on a platform chosen by
\* the query parameter, not the active one; its record is in the answer.
C17_Witness ==
    /\ HasMention
    /\ Len(Fetched) = 3 /\ FirstWithColor = 2
    /\ ACTIVE_PLATFORM = {"mastodon"} /\ request.platform = {"bluesky"}
    /\ response.body.mention.id = "id2"
    /\ response.body.mention.account = "user2"
    /\ response.body.mention.created_at = "t2"
    /\ response.body.platform = {"bluesky"}

---------------------------------------------------------------------------
\* the X-API-Key header of the request is absent or is not the configured key
KeyMissingOrWrong == request.key = None \/ request.key # API_KEY

\* C18: with an API key configured, a request to /api/v1/color,
\* /api/v1/mentions or /api/v1/platforms is answered 401 exactly when its
\* X-API-Key header is absent or differs from the key; a request answered
\* 401 selects no platform and calls no get_latest_mentions; with no key
\* configured no request is answered 401.
C18_ApiKeyGate ==
    request # NoRequest =>
        /\ request.endpoint \in {"/api/v1/color", "/api/v1/mentions", "/api/v1/platforms"}
        /\ Truthy(API_KEY) => (response.status = 401 <=> KeyMissingOrWrong)
        /\ ~Truthy(API_KEY) => response.status # 401
        /\ response.status = 401 => (calls = <<>> /\ response = Unauthorized)

\* C18 witness: a key is configured, the request to /api/v1/mentions
\* carries another key and is answered 401.
C18_Witness ==
    /\ request # NoRequest
    /\ request.endpoint = "/api/v1/mentions"
    /\ API_KEY = {<<"s", "e", "c", "r", "e", "t">>} /\ request.key = {<<"w", "r", "o", "n", "g">>}
    /\ request.platform = {"mastodon"} /\ PLATFORMS = {"mastodon", "bluesky"}
    /\ response.status = 401
    /\ calls = <<>>

---------------------------------------------------------------------------
\* the request passes the API-key gate
Authorized == ~Truthy(API_KEY) \/ request.key = API_KEY

\* C19 (as claimed): an authorized request to /api/v1/color or
\* /api/v1/mentions selects the platform of its platform parameter, else the
\* active platform; when that name is absent or no key of the platform map
\* the answer is 400 with the available platforms and no platform is asked;
\* otherwise that platform, and no other, is asked exactly once.
C19_PlatformSelection ==
    (/\ request # NoRequest
     /\ request.endpoint \in {"/api/v1/color", "/api/v1/mentions"}
     /\ Authorized) =>
        IF Selected = None \/ ~(Selected \subseteq PLATFORMS)
        THEN /\ response.status = 400
             /\ response.body.available_platforms = PLATFORMS
             /\ calls = <<>>
        ELSE /\ Len(calls) = 1
             /\ calls[1].platform = Selected

---------------------------------------------------------------------------
\* C20: when get_latest_mentions of the selected platform raises,
\* /api/v1/color and /api/v1/mentions answer 500 with the text of the error
\* and the platform name, and never 200 with a colour or a mention list.
C20_PlatformErrorIs500 ==
    (calls # <<>> /\ calls[1].outcome.kind = "raise") =>
        /\ request.endpoint \in {"/api/v1/color", "/api/v1/mentions"}
        /\ response.status = 500
        /\ response.body = [error |-> calls[1].outcome.error, platform |-> Selected]

\* C20 witness: get_latest_mentions raised for a request to
\* /api/v1/mentions and the answer is 500 with the error text.
C20_Witness ==
    /\ request # NoRequest
    /\ request.endpoint = "/api/v1/mentions"
    /\ calls # <<>> /\ calls[1].outcome.kind = "raise"
    /\ response.status = 500
    /\ response.body.error = "Connection failed"
    /\ response.body.platform = {"mastodon"}

---------------------------------------------------------------------------
\* C27: every authorized request to /api/v1/color or /api/v1/mentions, for
\* any limit parameter and any platform behaviour, ends in one of the
\* handler's own JSON responses: 200, 400 with the available platforms, or
\* 500 with the error and the platform name; no exception leaves the
\* handler.
C27_OwnResponse ==
    (/\ request # NoRequest
     /\ request.endpoint \in {"/api/v1/color", "/api/v1/mentions"}
     /\ Authorized) =>
        \/ response.status = 200
        \/ response.status = 400 /\ "available_platforms" \in DOMAIN response.body
        \/ response.status = 500 /\ DOMAIN response.body = {"error", "platform"}

---------------------------------------------------------------------------
\* the number the limit parameter of the request states, 10 without one
StatedLimit ==
    IF request.limit = None THEN 10
    ELSE LET l == CHOOSE x \in request.limit : TRUE IN IntIn(l, 1, Len(l))

\* C24: the handler forwards the limit and does not apply it: the limit
\* parameter (10 when absent) is the limit argument of get_latest_mentions,
\* and the answer covers the whole list the platform returned, in its
\* order: /api/v1/mentions lists every mention, /api/v1/color finds the
\* first mention with a colour wherever it stands and otherwise reports
\* the length of the list as mentions_checked.
C24_LimitOnlyForwarded ==
    (request # NoRequest /\ calls # <<>>) =>
        /\ calls[1].limit = {StatedLimit}
        /\ (request.endpoint = "/api/v1/mentions" /\ calls[1].outcome.kind = "ok") =>
              /\ response.body.count = Len(Fetched)
              /\ Len(response.body.mentions) = Len(Fetched)
              /\ \A i \in 1..Len(Fetched) : response.body.mentions[i].id = Fetched[i].id
        /\ ColorFetched =>
              /\ (\E j \in 1..Len(Fetched) : UnmarkedColor(Fetched[j]) # None) =>
                    /\ HasMention
                    /\ response.body.mention.id = Fetched[FirstWithColor].id
              /\ "mentions_checked" \in DOMAIN response.body =>
                    response.body.mentions_checked = Len(Fetched)

\* C24 witness: with limit=2 the platform returned three mentions, only the
\* third has a colour, and the answer carries the third.
C24_Witness ==
    /\ ColorFetched
    /\ request.limit = {<<"2">>}
    /\ calls[1].limit = {2}
    /\ Len(Fetched) = 3
    /\ UnmarkedColor(Fetched[1]) = None
    /\ UnmarkedColor(Fetched[2]) = None
    /\ HasMention
    /\ response.body.mention.id = Fetched[3].id

---------------------------------------------------------------------------
\* the response that request req gets when it is the only request handled,
\* under the configuration and the platform data of this state
AloneResponse(req) ==
    IF ~Truthy(API_KEY) \/ req.key = API_KEY
    THEN IF req.endpoint = "/api/v1/platforms"
         THEN [status |-> 200,
               body |-> [available_platforms |-> PLATFORMS,
                         active_platform |-> ACTIVE_PLATFORM]]
         ELSE IF req.limit = {<<"a", "b", "c">>}
         THEN [status |-> 500, body |-> [unhandled |-> "ValueError"]]
         ELSE LET name == IF req.platform # None THEN req.platform ELSE ACTIVE_PLATFORM
              IN IF name = None \/ ~(name \subseteq PLATFORMS)
                 THEN [status |-> 400,
                       body |-> [error |-> <<"not available", name>>,
                                 available_platforms |-> PLATFORMS]]
                 ELSE LET outcome == feed[CHOOSE n \in name : TRUE]
                      IN IF req.endpoint = "/api/v1/color"
                         THEN ColorResponse(outcome, name)
                         ELSE MentionsResponse(outcome, name)
    ELSE Unauthorized

\* every response that is ready is the one its request gets alone
AsIfAlone ==
    \A w \in Workers :
        threads[w].pc = "done" => threads[w].response = AloneResponse(threads[w].request)

\* C25: request handling is stateless and safe under concurrency: no step
\* of a handler writes the effect vocabulary, the app configuration
\* (platform map, active platform, API key) or the platform data, and under
\* every interleaving of the handlers each response equals the response
\* the same request gets when it runs alone against the same platform data.
C25_Stateless ==
    /\ []AsIfAlone
    /\ [][UNCHANGED <<set_order, API_KEY, PLATFORMS, ACTIVE_PLATFORM, feed>>]_vars

\* C25 witness: two requests to /api/v1/color, one for each platform, have
\* been handled at the same time and their responses are ready; the two
\* carry different mentions.
C25_Witness ==
    /\ threads # <<>>
    /\ threads["w1"].pc = "done"
    /\ threads["w2"].pc = "done"
    /\ threads["w1"].request.endpoint = "/api/v1/color"
    /\ threads["w2"].request.endpoint = "/api/v1/color"
    /\ threads["w1"].platform_name = {"mastodon"}
    /\ threads["w2"].platform_name = {"bluesky"}
    /\ threads["w1"].response.status = 200
    /\ threads["w2"].response.status = 200
    /\ "mention" \in DOMAIN threads["w1"].response.body
    /\ "mention" \in DOMAIN threads["w2"].response.body
    /\ threads["w1"].response.body.mention.text # threads["w2"].response.body.mention.text

---------------------------------------------------------------------------
\* s has a substring "<", one or more characters other than ">", ">"
HasTag(s) ==
    \E i, j \in 1..Len(s) :
        /\ i + 1 < j
        /\ s[i] = "<"
        /\ s[j] = ">"
        /\ \A k \in (i + 1)..(j - 1) : s[k] # ">"

\* C30: markup stripping is idempotent: the stripped text has no substring
\* "<", one or more non-">" characters, ">", and stripping it again gives
\* the same text.
C30_StripIdempotent ==
    /\ op = "strip" => ~HasTag(ret)
    /\ op = "strip_again" => ret = text /\ ~HasTag(ret)

\* C30 witness: "<><a>a>" was stripped to "<>a>", where the removed tag
\* stood between "<>" and "a>", and stripping "<>a>" gave "<>a>" again.
C30_Witness ==
    /\ op = "strip_again"
    /\ text = <<"<", ">", "a", ">">>
    /\ ret = <<"<", ">", "a", ">">>

---------------------------------------------------------------------------
(* The platform objects. *)

MastodonCalled == op = "MastodonPlatform.get_latest_mentions"

BlueskyCalled == op = "BlueskyPlatform.get_latest_mentions"

\* the remote API raised when asked for the notification listing
ListingFailed == \E a \in args : a.answer.kind = "raise"

\* C21: get_latest_mentions of either platform ends by returning a list.
\* On an object whose client is unset the list is empty and no remote API
\* call was made; when the remote notification listing raises, the list
\* is empty.
C21_EmptyWithoutClientOrListing ==
    /\ MastodonCalled =>
          /\ ~Truthy(mastodon.client) => ret = <<>> /\ remote = <<>>
          /\ ListingFailed => ret = <<>>
    /\ BlueskyCalled =>
          /\ ~Truthy(bluesky.client) => ret = <<>> /\ remote = <<>>
          /\ ListingFailed => ret = <<>>

\* get_latest_mentions was called on a MastodonPlatform without a client
\* while the remote had a mention to list, and returned the empty list.
C21_Witness ==
    /\ MastodonCalled
    /\ ~Truthy(mastodon.client)
    /\ \E a \in args :
          /\ a.answer.kind = "ok"
          /\ \E i \in DOMAIN a.answer.notifications :
                a.answer.notifications[i].type = {"mention"}
    /\ ret = <<>>

\* C22: BlueskyPlatform.get_latest_mentions(limit) returns at most limit
\* mentions, for every limit and every notification listing.
C22_AtMostLimit ==
    BlueskyCalled => \A a \in args : Len(ret) <= a.limit

\* the listing that the remote API answered with
Listing == (CHOOSE a \in args : TRUE).answer.notifications

\* the positions of the listing that returned record k can come from: the
\* notification's own URI or its subject's URI is the record's id
From(k) ==
    {i \in DOMAIN Listing : ret[k].id \in ({Listing[i].uri} \cup Listing[i].subject)}

\* the URI names a record of the collection app.bsky.feed.post
IsPostUri(u) ==
    \E j \in 1..Len(u) : \E n \in 0..Len(u) :
        j + n <= Len(u) /\ SubSeq(u, j, j + n) = <<"a", "p", "p", ".", "b", "s", "k", "y", ".", "f", "e", "e", "d", ".", "p", "o", "s", "t">>

C26_NoClientAfterFailedInitialize ==
    /\ initialize_ret.mastodon = {FALSE} =>
          /\ ~Truthy(mastodon.client)
          /\ MastodonCalled => ret = <<>> /\ remote = <<>>
    /\ initialize_ret.bluesky = {FALSE} =>
          /\ ~Truthy(bluesky.client)
          /\ BlueskyCalled => ret = <<>> /\ remote = <<>>

\* C28: after _initialize_platforms the platform map holds exactly the
\* platforms whose initialize returned True; the active platform is None
\* exactly when the map is empty and is otherwise a key of the map; it is
\* mastodon whenever Mastodon initialized, and bluesky only when Mastodon
\* is not configured or failed.
C28_PlatformMap ==
    op = "_initialize_platforms" =>
        /\ PLATFORMS = {p \in {"mastodon", "bluesky"} : initialize_ret[p] = {TRUE}}
        /\ (ACTIVE_PLATFORM = None) <=> (PLATFORMS = {})
        /\ ACTIVE_PLATFORM \subseteq PLATFORMS
        /\ "mastodon" \in PLATFORMS => ACTIVE_PLATFORM = {"mastodon"}
        /\ ACTIVE_PLATFORM = {"bluesky"} => initialize_ret.mastodon \in {None, {FALSE}}

\* C28 witness: both platforms are configured, Mastodon failed to
\* initialize and Bluesky succeeded; Bluesky is the only key and active.
C28_Witness ==
    /\ op = "_initialize_platforms"
    /\ initialize_ret = [mastodon |-> {FALSE}, bluesky |-> {TRUE}]
    /\ PLATFORMS = {"bluesky"}
    /\ ACTIVE_PLATFORM = {"bluesky"}

\* notification i of a Mastodon listing is a mention with a status dict
WellFormedMention(i) ==
    /\ Listing[i].type = {"mention"}
    /\ Listing[i].status # None
    /\ Listing[i].status # {JsonNull}

\* notification i of a Bluesky listing is a mention or reply that names a
\* post and whose text is embedded or can be fetched
ReadableMention(i) ==
    /\ Listing[i].reason \in {{"mention"}, {"reply"}}
    /\ Listing[i].subject # None \/ IsPostUri(Listing[i].uri)
    /\ \/ Listing[i].text # <<>>
       \/ /\ Listing[i].posts.kind = "ok"
          /\ Listing[i].posts.posts # <<>>
          /\ Listing[i].posts.posts[1].text # <<>>

\* C29: a notification that cannot be processed costs only its own record:
\* every mention of a Mastodon listing that has a status is returned, and
\* (the limit permitting) every Bluesky mention or reply whose post can be
\* read is returned, whatever the other notifications of the listing are.
C29_OthersKept ==
    /\ (MastodonCalled /\ Truthy(mastodon.client) /\ ~ListingFailed) =>
          \A i \in DOMAIN Listing :
              WellFormedMention(i) =>
                  \E k \in DOMAIN ret :
                      \A st \in Listing[i].status : ret[k].id = st.id
    /\ (BlueskyCalled /\ Truthy(bluesky.client) /\ ~ListingFailed) =>
          \A a \in args :
              a.limit > Len(Listing) =>
                  \A i \in DOMAIN Listing :
                      ReadableMention(i) => \E k \in DOMAIN ret : i \in From(k)
====
